---------------------------- MODULE Spec2Model ----------------------------
(***************************************************************************)
(* A model of inline_holo.py: the padding manager (set_pad / remove_pad,   *)
(* the deprecated set_padding / unset_padding), the validation            *)
(* constructor, the coordinate engine (get_real_space, get_fourier_space) *)
(* and the digitization of a coordinate mesh.                              *)
(*                                                                         *)
(* Numbers.  Physical quantities (scale, offset, coordinates, mesh        *)
(* samples, bin sizes) are exact integers counted in ticks of a fixed     *)
(* unit; where the code multiplies by 0.5 or 1.1 or divides, the model    *)
(* keeps the value exact by carrying the denominator.  Floating-point     *)
(* rounding is not modelled.  Radii and angles are computed where the     *)
(* square root is an integer and the angle a multiple of pi/4, with pi    *)
(* taken as 355/113.                                                       *)
(*                                                                         *)
(* Images.  An image is 2-D with no navigation axis.  data is the array   *)
(* as a sequence of rows: data[r][c] is array element [r-1, c-1], rows    *)
(* run along y (array axis 0), columns along x (array axis 1).  Signal    *)
(* axes are numbered as hyperspy's signal_axes: 1 is x, 2 is y.           *)
(***************************************************************************)
EXTENDS Integers, Sequences, FiniteSets, TLC

VARIABLES img, orig, prev, hist, ret, val

vars == <<img, orig, prev, hist, ret, val>>

(***************************************************************************)
(* Bounds of the model.                                                    *)
(***************************************************************************)
MaxN == 2
MaxPad == 1
MaxOps == 3
MaxSetPads == 1
MaxAxis == 4
MaxBins == 3

Min(a, b) == IF a < b THEN a ELSE b
Max(a, b) == IF a < b THEN b ELSE a

(***************************************************************************)
(* The image value type.                                                   *)
(***************************************************************************)
NoRecord == [has |-> FALSE, arr |-> <<>>]

Record(arr) == [has |-> TRUE, arr |-> arr]

\* ModifiedImage(npdata): default axes, empty metadata.
ModifiedImage(data) ==
    [cls |-> "ModifiedImage", data |-> data,
     offset |-> <<0, 0>>, scale |-> <<1, 1>>,
     pad_width |-> NoRecord, pad_tuple |-> NoRecord]

\* A raw numpy array, as handed to validation().
ndarray(data) == [cls |-> "ndarray", data |-> data]

\* numpy2ModI(npdata, dsig, osig)
numpy2ModI(data, dsig, osig) ==
    [ModifiedImage(data) EXCEPT !.offset = osig, !.scale = dsig]

\* axes_manager.signal_shape: (Nx, Ny)
signal_shape(self) == <<Len(self.data[1]), Len(self.data)>>

signal_dimension == 2

\* ax.index_in_array of signal axis io (1 = x, 2 = y) of an image.
index_in_array(io) == signal_dimension - io

(***************************************************************************)
(* Results of a call: the exception raised ("none" when it returns), the  *)
(* receiver after the call, and the returned object.                      *)
(***************************************************************************)
Returns(self, out) == [exc |-> "none", self |-> self, out |-> out]

Raises(exc, self) == [exc |-> exc, self |-> self, out |-> self]

(***************************************************************************)
(* The pad_width argument.  form is the nesting of the python value:      *)
(*   "flat"    (a, b, ...)            an array of ndim 1                  *)
(*   "nested"  ((b, a), (b, a), ...)  an array of ndim 2, v its rows      *)
(*   "deep"    (((b, a), ...), ...)   an array of ndim 3, v its outermost *)
(*   "ragged"  rows of unequal length: np.array(..., int) raises          *)
(*   "mixed"   (a, b, ...) whose entries are python ints or floats, each  *)
(*             a PadInt or a PadFloat                                     *)
(*   "None"    the default argument                                       *)
(***************************************************************************)
PadArg(form, v) == [form |-> form, v |-> v]

\* One entry of a "mixed" pad_width: a python int n, or a float num / den in
\* the unit of the axes, den > 0.
PadInt(n) == [type |-> "int", num |-> n, den |-> 1]
PadFloat(num, den) == [type |-> "float", num |-> num, den |-> den]

ndim(pad_width) ==
    CASE pad_width.form \in {"flat", "mixed"} -> 1
      [] pad_width.form = "nested" -> 2
      [] OTHER -> 3

\* np.argsort of a sequence of distinct numbers, as 1-based positions.
argsort(s) ==
    [i \in 1..Len(s) |->
        CHOOSE j \in 1..Len(s) :
            Cardinality({k \in 1..Len(s) : s[k] < s[j]}) = i - 1]

Zeros(n) == [i \in 1..n |-> 0]

\* One row or column vector padded by (before, after).
PadVector(v, before, after, mode) ==
    [i \in 1..(before + Len(v) + after) |->
        IF i <= before
        THEN (IF mode = "edge" THEN v[1] ELSE 0)
        ELSE IF i > before + Len(v)
        THEN (IF mode = "edge" THEN v[Len(v)] ELSE 0)
        ELSE v[i - before]]

\* np.pad's pad_width broadcast to (ndim, 2); defined when BroadcastsToPairs.
BroadcastsToPairs(pw, nd) ==
    /\ Len(pw) \in {1, nd}
    /\ \A i \in 1..Len(pw) : Len(pw[i]) \in {1, 2}

AsPairs(pw, nd) ==
    [i \in 1..nd |->
        LET row == pw[IF Len(pw) = 1 THEN 1 ELSE i]
        IN  <<row[1], row[IF Len(row) = 1 THEN 1 ELSE 2]>>]

\* _pad(arr, pad_width, mode, **kwargs) = np.pad on the 2-D signal array,
\* mode "constant" with constant_values=0, or mode "edge".
_pad(arr, pad_width, mode) ==
    IF ~BroadcastsToPairs(pad_width, 2)
    THEN [exc |-> "ValueError", data |-> arr]
    ELSE LET p == AsPairs(pad_width, 2)
             cols == [r \in 1..Len(arr) |->
                         PadVector(arr[r], p[2][1], p[2][2], mode)]
             width == Len(cols[1])
             top == IF mode = "edge" THEN cols[1] ELSE Zeros(width)
             bot == IF mode = "edge" THEN cols[Len(cols)] ELSE Zeros(width)
         IN  [exc |-> "none",
              data |-> [r \in 1..(p[1][1] + Len(arr) + p[1][2]) |->
                           IF r <= p[1][1] THEN top
                           ELSE IF r > p[1][1] + Len(arr) THEN bot
                           ELSE cols[r - p[1][1]]]]

\* The integer nearest to num / den, halves to the even one, den # 0.
np_rint(num, den) ==
    LET n == IF den < 0 THEN -num ELSE num
        d == IF den < 0 THEN -den ELSE den
        q == n \div d
        twice == 2 * (n - q * d)
    IN  IF twice > d \/ (twice = d /\ q % 2 = 1) THEN q + 1 ELSE q

\* np.int(num / den): the quotient truncated toward zero, den # 0.
np_int(num, den) ==
    LET n == IF den < 0 THEN -num ELSE num
        d == IF den < 0 THEN -den ELSE den
    IN  IF n >= 0 THEN n \div d ELSE -((-n) \div d)

\* pad_arr of lines 175-196, one row per entry of pad_width: np.array(
\* pad_width, np.int) truncates the floats, [:, None] makes a flat array a
\* column, and the loop replaces the entry of each float pw zipped with a
\* signal axis by np.int(pw / ax.scale).
pad_array(self, pad_width) ==
    IF pad_width.form = "mixed"
    THEN [io \in 1..Len(pad_width.v) |->
             LET pw == pad_width.v[io]
             IN  IF pw.type = "float" /\ io <= signal_dimension
                 THEN <<np_int(pw.num, pw.den * self.scale[io])>>
                 ELSE <<np_int(pw.num, pw.den)>>]
    ELSE IF ndim(pad_width) = 1
    THEN [i \in 1..Len(pad_width.v) |-> <<pad_width.v[i]>>]
    ELSE pad_width.v

\* set_pad as it would be without the length check of lines 181-182.
set_pad_no_length_check(self, pad_width, mode) ==
    IF pad_width.form = "None" THEN Returns(self, self)
    ELSE IF pad_width.form = "ragged" THEN Raises("ValueError", self)
    ELSE IF ndim(pad_width) > 2 THEN Raises("ValueError", self)
    ELSE LET pad_arr == pad_array(self, pad_width)
             n == Min(Len(pad_width.v), signal_dimension)
             indices == [io \in 1..n |-> index_in_array(io)]
             order == argsort(indices)
             res == _pad(self.data, [i \in 1..n |-> pad_arr[order[i]]], mode)
         IN  IF res.exc # "none" THEN Raises(res.exc, self)
             ELSE Returns(self, [self EXCEPT !.data = res.data,
                                             !.pad_width = Record(pad_arr)])

\* ModifiedSignal.set_pad.
set_pad(self, pad_width, mode) ==
    IF pad_width.form = "None" THEN Returns(self, self)
    ELSE IF pad_width.form = "ragged" THEN Raises("ValueError", self)
    ELSE LET Nsig == signal_dimension IN
    IF Len(pad_width.v) > Nsig THEN Raises("ValueError", self)
    ELSE IF ndim(pad_width) > 2 THEN Raises("ValueError", self)
    ELSE LET pad_arr == pad_array(self, pad_width)
             n == Min(Len(pad_width.v), Nsig)
             indices == [io \in 1..n |-> index_in_array(io)]
             order == argsort(indices)
             res == _pad(self.data, [i \in 1..n |-> pad_arr[order[i]]], mode)
         IN  IF res.exc # "none" THEN Raises(res.exc, self)
             ELSE Returns(self, [self EXCEPT !.data = res.data,
                                             !.pad_width = Record(pad_arr)])

\* DataAxis._get_array_slices(i) for an integer i on an axis of `size`.
_get_array_slices(size, i) ==
    LET start == IF i < 0 THEN i + size ELSE i
    IN  [start |-> start, stop |-> start + 1]

AllOf == [all |-> TRUE, start |-> 0, stop |-> 0]

SliceOf(start, stop) == [all |-> FALSE, start |-> start, stop |-> stop]

\* v[start:stop] of python, on a 1-based sequence.
PySlice(v, s) ==
    IF s.all THEN v
    ELSE SubSeq(v, Max(s.start, 0) + 1, Min(s.stop, Len(v)))

\* self.isig[slicers]: a copy sliced along x by slicers[1] and along y by
\* slicers[2]; each sliced axis has its offset moved to the first kept pixel.
isig(self, slicers) ==
    LET rows == PySlice(self.data, slicers[2])
    IN  [self EXCEPT
            !.data = [r \in 1..Len(rows) |-> PySlice(rows[r], slicers[1])],
            !.offset = [io \in 1..2 |->
                IF slicers[io].all THEN self.offset[io]
                ELSE self.offset[io] + slicers[io].start * self.scale[io]]]

\* The loop of remove_pad over zip(pad_width, signal_axes), from entry io on.
RECURSIVE remove_pad_loop(_, _, _, _, _)
remove_pad_loop(self, pad_width, io, slicers, sum_up) ==
    IF io > Min(Len(pad_width), signal_dimension)
    THEN [slicers |-> slicers, sum_up |-> sum_up]
    ELSE LET pw == IF Len(pad_width[io]) = 1
                   THEN <<pad_width[io][1], pad_width[io][1]>>
                   ELSE pad_width[io]
             size == signal_shape(self)[io]
         IN  IF pw[1] # 0 /\ pw[2] # 0
             THEN LET a == _get_array_slices(size, pw[1])
                      b == _get_array_slices(size, -pw[2])
                  IN  remove_pad_loop(self, pad_width, io + 1,
                          [slicers EXCEPT ![io] = SliceOf(a.start, b.stop - 1)],
                          Append(sum_up, a.start * self.scale[io]))
             ELSE remove_pad_loop(self, pad_width, io + 1, slicers, <<0>>)

\* remove_pad as it would be without line 250: the pad record is kept.
remove_pad_keeps_record(self) ==
    IF ~self.pad_width.has THEN Returns(self, self)
    ELSE LET l == remove_pad_loop(self, self.pad_width.arr, 1,
                                  <<AllOf, AllOf>>, <<>>)
             out == isig(self, l.slicers)
         IN  Returns(self,
                 [out EXCEPT
                     !.offset = [io \in 1..2 |->
                         IF io <= Len(l.sum_up)
                         THEN out.offset[io] - l.sum_up[io]
                         ELSE out.offset[io]]])

\* ModifiedSignal.remove_pad
remove_pad(self) ==
    IF ~self.pad_width.has THEN Returns(self, self)
    ELSE LET pad_width == self.pad_width.arr
             Nsig == signal_dimension
         IN
    IF Len(pad_width) > Nsig THEN Raises("ValueError", self)
    ELSE LET l == remove_pad_loop(self, pad_width, 1, <<AllOf, AllOf>>, <<>>)
             out == isig(self, l.slicers)
         IN  Returns(self,
                 [out EXCEPT
                     !.offset = [io \in 1..2 |->
                         IF io <= Len(l.sum_up)
                         THEN out.offset[io] - l.sum_up[io]
                         ELSE out.offset[io]],
                     !.pad_width = NoRecord])

\* ModifiedImage.set_padding (deprecated), navigation dimension 0:
\* pad_width goes to np.pad as given, in array-axis order.
set_padding(self, pad_width, mode) ==
    IF pad_width.form = "None" THEN Returns(self, self)
    ELSE LET res == _pad(self.data, pad_width.v, mode)
         IN  IF res.exc # "none" THEN Raises(res.exc, self)
             ELSE Returns(self, [self EXCEPT !.data = res.data,
                                             !.pad_tuple = Record(pad_width.v)])

\* ModifiedImage.unset_padding (deprecated), navigation dimension 0.
unset_padding(self) ==
    IF ~self.pad_tuple.has THEN Returns(self, self)
    ELSE IF Len(self.pad_tuple.arr) # 2 THEN Raises("ValueError", self)
    ELSE LET Npy == self.pad_tuple.arr[1]
             Npx == self.pad_tuple.arr[2]
             Nx == signal_shape(self)[1]
             Ny == signal_shape(self)[2]
             rows == PySlice(self.data, SliceOf(Npy[1], Ny - Npy[2]))
         IN  Returns(self,
                 [self EXCEPT
                     !.pad_tuple = NoRecord,
                     !.data = [r \in 1..Len(rows) |->
                         PySlice(rows[r], SliceOf(Npx[1], Nx - Npx[2]))]])

\* validation._set_image
_set_image(imdata, unpad) ==
    IF unpad
    THEN IF imdata.cls = "ndarray" THEN Raises("AttributeError", imdata)
         ELSE unset_padding(imdata)
    ELSE IF imdata.cls = "ndarray"
         THEN Returns(imdata, ModifiedImage(imdata.data))
         ELSE Returns(imdata, imdata)

NoVal == [has |-> FALSE]

\* validation.__init__: the object exists only when both images were set.
validation(observed, expected, unpad) ==
    LET o == _set_image(observed, unpad)
        e == _set_image(expected, unpad)
    IN  IF o.exc # "none" THEN [exc |-> o.exc, out |-> NoVal]
        ELSE IF e.exc # "none" THEN [exc |-> e.exc, out |-> NoVal]
        ELSE [exc |-> "none",
              out |-> [has |-> TRUE, obs |-> o.out, exp |-> e.out]]

(***************************************************************************)
(* Coordinate engine.                                                      *)
(***************************************************************************)
\* axi.axis of signal axis io: offset + index * scale.
axis(self, io) ==
    [i \in 1..signal_shape(self)[io] |->
        self.offset[io] + (i - 1) * self.scale[io]]

\* v.max() of a non-empty vector.
VecMax(v) == CHOOSE m \in {v[i] : i \in 1..Len(v)} :
                \A i \in 1..Len(v) : v[i] <= m

\* v.min() of a non-empty vector.
VecMin(v) == CHOOSE m \in {v[i] : i \in 1..Len(v)} :
                \A i \in 1..Len(v) : m <= v[i]

NoShifts == [given |-> FALSE, v |-> <<>>]

Shifts(v) == [given |-> TRUE, v |-> v]

\* One entry of shifts: a python int (pixels) or a float (physical units).
Shift(type, v) == [type |-> type, v |-> v]

\* The shifted branch of get_real_space as it would be with the span taken
\* from the coordinates themselves: coords[io] -= 0.5 * coords[io].max().
center_on_coords_max(coords, offsets, io) ==
    [i \in 1..Len(coords[io]) |-> 2 * coords[io][i] - VecMax(coords[io])]

\* Lines 377-378: coords[io] -= 0.5 * (coords[io] - offsets[io]).max().
\* The result is in half ticks (twice the coordinate).
center(coords, offsets, io) ==
    LET ax_shift == [i \in 1..Len(coords[io]) |-> coords[io][i] - offsets[io]]
    IN  [i \in 1..Len(coords[io]) |-> 2 * coords[io][i] - VecMax(ax_shift)]

\* ModifiedImage.get_real_space.  coords are in half ticks.
get_real_space(self, shifted, shifts) ==
    LET scales == self.scale
        offsets == self.offset
        coords == [io \in 1..2 |-> axis(self, io)]
        centred == [io \in 1..2 |->
                       IF shifted THEN center(coords, offsets, io)
                       ELSE [i \in 1..Len(coords[io]) |-> 2 * coords[io][i]]]
    IN  IF ~shifts.given THEN [exc |-> "none", coords |-> centred]
        ELSE IF Len(shifts.v) # 2
        THEN [exc |-> "TypeError", coords |-> <<>>]
        ELSE [exc |-> "none",
              coords |-> [io \in 1..2 |->
                  LET sh == IF shifts.v[io].type = "int"
                            THEN shifts.v[io].v * scales[io]
                            ELSE shifts.v[io].v
                  IN  [i \in 1..Len(centred[io]) |->
                          centred[io][i] - 2 * sh]]]

\* np.fft.fftshift of a vector.
fftshift(x) ==
    LET n == Len(x)
    IN  [i \in 1..n |-> x[((i - 1 + n - (n \div 2)) % n) + 1]]

\* np.fft.ifftshift of a vector.
ifftshift(x) ==
    LET n == Len(x)
    IN  [i \in 1..n |-> x[((i - 1 + (n \div 2)) % n) + 1]]

\* ModifiedImage.get_fourier_space.  kx[i] stands for kx[i] * 2 pi / kden[1],
\* ky[i] for ky[i] * 2 pi / kden[2], and k2[r][c] for
\* k2[r][c] * (2 pi)^2 / k2den.
get_fourier_space(self, retstr) ==
    LET Nx == signal_shape(self)[1]
        Ny == signal_shape(self)[2]
        dx == self.scale[1]
        dy == self.scale[2]
        ky1D == [j \in 1..Ny |-> -(Ny \div 2) + (j - 1)]
        kx1D == [j \in 1..Nx |-> -(Nx \div 2) + (j - 1)]
        kx == ifftshift(kx1D)
        ky == ifftshift(ky1D)
        kden == <<Nx * dx, Ny * dy>>
        k2 == [r \in 1..Ny |-> [c \in 1..Nx |->
                  kx[c] * kx[c] * kden[2] * kden[2]
                  + ky[r] * ky[r] * kden[1] * kden[1]]]
        k2den == kden[1] * kden[1] * kden[2] * kden[2]
    IN  CASE retstr = "vectors" ->
                [exc |-> "none", kx |-> kx, ky |-> ky, kden |-> kden,
                 k2 |-> <<>>, k2den |-> 1]
          [] retstr = "square" ->
                [exc |-> "none", kx |-> <<>>, ky |-> <<>>, kden |-> kden,
                 k2 |-> k2, k2den |-> k2den]
          [] retstr = "both" ->
                [exc |-> "none", kx |-> kx, ky |-> ky, kden |-> kden,
                 k2 |-> k2, k2den |-> k2den]
          [] OTHER ->
                [exc |-> "ValueError", kx |-> <<>>, ky |-> <<>>,
                 kden |-> kden, k2 |-> <<>>, k2den |-> 1]

(***************************************************************************)
(* Digitization.  A mesh is a matrix of integers over a common denominator *)
(* mden; a bin size is a fraction <<num, den>> of the same unit.           *)
(***************************************************************************)
\* np.sqrt of a non-negative integer; exact tells whether the root is one.
Sqrt(s) ==
    LET roots == {r \in 0..s : r * r = s}
    IN  IF roots = {} THEN [exact |-> FALSE, v |-> 0]
        ELSE [exact |-> TRUE, v |-> CHOOSE r \in roots : TRUE]

\* np.pi as a fraction PiNum / PiDen.
PiNum == 355
PiDen == 113

\* Angles are counted in units of 1 / AngleDen radian, so that a multiple
\* a of pi/4 is the integer a * PiNum.
AngleDen == 4 * PiDen

\* np.angle(x + 1j*y) in multiples of pi/4, for the directions where the
\* angle is such a multiple.
np_angle(x, y) ==
    CASE x = 0 /\ y = 0 -> [exact |-> TRUE, v |-> 0]
      [] y = 0 /\ x > 0 -> [exact |-> TRUE, v |-> 0]
      [] y = 0 /\ x < 0 -> [exact |-> TRUE, v |-> 4 * PiNum]
      [] x = 0 /\ y > 0 -> [exact |-> TRUE, v |-> 2 * PiNum]
      [] x = 0 /\ y < 0 -> [exact |-> TRUE, v |-> -2 * PiNum]
      [] x # 0 /\ x = y /\ x > 0 -> [exact |-> TRUE, v |-> PiNum]
      [] x # 0 /\ x = y /\ x < 0 -> [exact |-> TRUE, v |-> -3 * PiNum]
      [] x # 0 /\ x = -y /\ x < 0 -> [exact |-> TRUE, v |-> 3 * PiNum]
      [] x # 0 /\ x = -y /\ x > 0 -> [exact |-> TRUE, v |-> -PiNum]
      [] OTHER -> [exact |-> FALSE, v |-> 0]

\* The values of a matrix.
Values(m) == {m[r][c] : r \in 1..Len(m), c \in 1..Len(m[1])}

\* m.min() and m.max() of a matrix.
MatMin(m) == CHOOSE v \in Values(m) : \A w \in Values(m) : v <= w
MatMax(m) == CHOOSE v \in Values(m) : \A w \in Values(m) : w <= v

\* ceil(a / b) for b > 0.
CeilDiv(a, b) == -((-a) \div b)

\* np.arange(lo, hi + bin_size, bin_size): the edges without the 1.1 margin.
bin_edges_no_margin(lo, hi, bin_size) ==
    LET num == bin_size[1]
        den == bin_size[2]
        n == CeilDiv(den * (hi - lo) + num, num)
    IN  [j \in 1..n |-> den * lo + (j - 1) * num]

\* np.arange(lo, hi + 1.1*bin_size, bin_size) for bin_size > 0: the edges
\* lo + j*bin_size, j = 0 .. ceil((hi + 1.1*bin_size - lo)/bin_size) - 1, as
\* numerators over den.
bin_edges(lo, hi, bin_size) ==
    LET num == bin_size[1]
        den == bin_size[2]
        n == CeilDiv(10 * den * (hi - lo) + 11 * num, 10 * num)
    IN  [j \in 1..n |-> den * lo + (j - 1) * num]

\* np.digitize shifted down by one: the index of the last edge <= x.
np_digitize_left(x, bins) ==
    Cardinality({j \in 1..Len(bins) : bins[j] <= x}) - 1

\* np.digitize(x, bins) for increasing bins: the index i with
\* bins[i-1] <= x < bins[i], i.e. the number of edges <= x.
np_digitize(x, bins) ==
    Cardinality({j \in 1..Len(bins) : bins[j] <= x})

\* Lines 462-464 and 497-499: edges, indices and labels of a mesh.  bins and
\* data are numerators over mden * bin_size[2].
digitize(mesh, mden, bin_size) ==
    IF bin_size[1] <= 0
    THEN [exc |-> "ValueError", mesh |-> mesh, mden |-> mden,
          bin_size |-> bin_size, bins |-> <<>>, idx |-> <<>>, data |-> <<>>]
    ELSE
    LET den == bin_size[2]
        bins == bin_edges(MatMin(mesh), MatMax(mesh), bin_size)
        idx == [r \in 1..Len(mesh) |-> [c \in 1..Len(mesh[1]) |->
                   np_digitize(den * mesh[r][c], bins)]]
    IN  IF \E i \in Values(idx) : i >= Len(bins)
        THEN [exc |-> "IndexError", mesh |-> mesh, mden |-> mden,
              bin_size |-> bin_size, bins |-> bins, idx |-> idx,
              data |-> <<>>]
        ELSE [exc |-> "none", mesh |-> mesh, mden |-> mden,
              bin_size |-> bin_size, bins |-> bins, idx |-> idx,
              data |-> [r \in 1..Len(mesh) |-> [c \in 1..Len(mesh[1]) |->
                           bins[idx[r][c] + 1]]]]

\* The bin_size argument: None, a python int or a float num / den.
BinNone == [type |-> "None", num |-> 0, den |-> 1]
BinInt(n) == [type |-> "int", num |-> n, den |-> 1]
BinFloat(num, den) == [type |-> "float", num |-> num, den |-> den]

\* np.sqrt(np.sum(np.power(scales, 2))).
scales_norm(self) ==
    Sqrt(self.scale[1] * self.scale[1] + self.scale[2] * self.scale[2])

\* np.sqrt(xx[None, :]**2. + yy[:, None]**2.), in the unit of xx and yy.
radius_mesh(xx, yy) ==
    [r \in 1..Len(yy) |-> [c \in 1..Len(xx) |->
        Sqrt(xx[c] * xx[c] + yy[r] * yy[r])]]

\* np.angle(xx[None, :] + 1j * yy[:, None]).
angle_mesh(xx, yy) ==
    [r \in 1..Len(yy) |-> [c \in 1..Len(xx) |-> np_angle(xx[c], yy[r])]]

\* Every sample of the mesh is an integer of the unit.
Representable(m) == \A s \in Values(m) : s.exact

ValuesOf(m) == [r \in 1..Len(m) |-> [c \in 1..Len(m[1]) |-> m[r][c].v]]

Propagate(exc) ==
    [exc |-> exc, mesh |-> <<>>, mden |-> 1, bin_size |-> <<0, 1>>,
     bins |-> <<>>, idx |-> <<>>, data |-> <<>>]

\* get_digitized_radius as it would be with the integer count dividing the
\* span of the radius, (radius.max() - radius.min()) / bin_size.
get_digitized_radius_of_span(self, bin_size, shifted, shifts) ==
    LET rs == get_real_space(self, shifted, shifts)
    IN  IF rs.exc # "none" THEN Propagate(rs.exc)
        ELSE
        LET radius == ValuesOf(radius_mesh(rs.coords[1], rs.coords[2]))
            size == CASE bin_size.type = "None" ->
                            <<2 * scales_norm(self).v, 1>>
                      [] bin_size.type = "int" ->
                            <<MatMax(radius) - MatMin(radius), bin_size.num>>
                      [] OTHER -> <<2 * bin_size.num, bin_size.den>>
        IN  digitize(radius, 2, size)

\* ModifiedImage.get_digitized_radius.  The radius is in half units, as the
\* coordinates of get_real_space are.
get_digitized_radius(self, bin_size, shifted, shifts) ==
    LET rs == get_real_space(self, shifted, shifts)
    IN  IF rs.exc # "none" THEN Propagate(rs.exc)
        ELSE
        LET radius == ValuesOf(radius_mesh(rs.coords[1], rs.coords[2]))
            size == CASE bin_size.type = "None" ->
                            <<2 * scales_norm(self).v, 1>>
                      [] bin_size.type = "int" ->
                            <<MatMax(radius), bin_size.num>>
                      [] OTHER -> <<2 * bin_size.num, bin_size.den>>
        IN  digitize(radius, 2, size)

\* ModifiedImage.get_digitized_angle.  The angle is in 1 / AngleDen radian.
get_digitized_angle(self, bin_size, shifted, shifts) ==
    LET rs == get_real_space(self, shifted, shifts)
    IN  IF rs.exc # "none" THEN Propagate(rs.exc)
        ELSE
        LET angle == ValuesOf(angle_mesh(rs.coords[1], rs.coords[2]))
            size == CASE bin_size.type = "None" ->
                            <<AngleDen * scales_norm(self).v, 1>>
                      [] bin_size.type = "int" ->
                            <<2 * 4 * PiNum, bin_size.num>>
                      [] OTHER -> <<AngleDen * bin_size.num, bin_size.den>>
        IN  digitize(angle, AngleDen, size)

(***************************************************************************)
(* Inputs.                                                                 *)
(***************************************************************************)
\* An Nx-by-Ny array whose pixels are pairwise different and nonzero, so
\* that any two different crops of a padded array differ.
Labelled(Nx, Ny) == [r \in 1..Ny |-> [c \in 1..Nx |-> (r - 1) * Nx + c]]

Geometries ==
    {[offset |-> <<0, 0>>, scale |-> <<1, 1>>],
     [offset |-> <<5, -3>>, scale |-> <<2, 3>>]}

ImagesUpTo(n) ==
    {numpy2ModI(Labelled(Nx, Ny), g.scale, g.offset) :
        Nx \in 1..n, Ny \in 1..n, g \in Geometries}

Widths == 0..MaxPad

\* Pad widths np.pad accepts for a 2-D array.
ValidPadWidths ==
    {PadArg("flat", <<a>>) : a \in Widths}
    \cup {PadArg("flat", <<a, b>>) : a, b \in Widths}
    \cup {PadArg("nested", << <<a>> >>) : a \in Widths}
    \cup {PadArg("nested", << <<b, a>> >>) : b, a \in Widths}
    \cup {PadArg("nested", << <<a>>, <<b>> >>) : a, b \in Widths}
    \cup {PadArg("nested", << <<b, a>>, <<d, c>> >>) : b, a, d, c \in Widths}

\* Pad widths that are too long, or whose per-axis entries are.
InvalidPadWidths ==
    {PadArg("flat", <<1, 1, 1>>),
     PadArg("nested", << <<1, 1>>, <<1, 1>>, <<1, 1>> >>),
     PadArg("nested", << <<1>>, <<0>>, <<1>> >>),
     PadArg("nested", << <<1, 1, 1>>, <<1, 1, 1>> >>),
     PadArg("nested", << <<1, 0, 1>> >>),
     PadArg("nested", << <<>>, <<>> >>),
     PadArg("ragged", << <<1, 1, 1>>, <<1>> >>),
     PadArg("deep", << << <<1, 1>>, <<1, 1>> >> >>),
     PadArg("deep", << << <<1>> >>, << <<1>> >>, << <<1>> >> >>)}

PadWidths == ValidPadWidths \cup InvalidPadWidths \cup {PadArg("None", <<>>)}

\* Arguments of the deprecated set_padding: ((by, ay), (bx, ax)) or ((b, a),).
PadTuples ==
    {PadArg("nested", << <<b, a>> >>) : b, a \in Widths}
    \cup {PadArg("nested", << <<b, a>>, <<d, c>> >>) : b, a, d, c \in Widths}
    \cup {PadArg("None", <<>>)}

Modes == {"constant", "edge"}

NoRet == [op |-> "none"]

Called(op, arg, mode, exc) ==
    [op |-> op, arg |-> arg, mode |-> mode, exc |-> exc]

(***************************************************************************)
(* The padding session: an image is constructed, then padded and unpadded *)
(* by calls whose result replaces it.  prev is the image before the last  *)
(* call, hist the calls made so far.                                       *)
(***************************************************************************)
Init ==
    /\ orig \in ImagesUpTo(MaxN)
    /\ img = orig
    /\ prev = orig
    /\ hist = <<>>
    /\ ret = NoRet
    /\ val = NoVal

\* img = img.<op>(...): on an exception the receiver is kept.
Rebind(op, arg, mode, r) ==
    /\ img' = (IF r.exc = "none" THEN r.out ELSE r.self)
    /\ prev' = img
    /\ hist' = Append(hist, Called(op, arg, mode, r.exc))
    /\ ret' = NoRet
    /\ UNCHANGED <<orig, val>>

\* Calls of hist that padded (set_pad or set_padding).
IsPadCall(c) == c.op \in {"set_pad", "set_padding"}

NumPads == Len(SelectSeq(hist, IsPadCall))

SetPad(limit, modes) ==
    /\ Len(hist) < MaxOps
    /\ NumPads < limit
    /\ ~val.has
    /\ \E pad_width \in PadWidths, mode \in modes :
        Rebind("set_pad", pad_width, mode, set_pad(img, pad_width, mode))

RemovePad ==
    /\ Len(hist) < MaxOps
    /\ ~val.has
    /\ Rebind("remove_pad", PadArg("None", <<>>), "", remove_pad(img))

SetPadding(limit, modes) ==
    /\ Len(hist) < MaxOps
    /\ NumPads < limit
    /\ ~val.has
    /\ \E pad_width \in PadTuples, mode \in modes :
        Rebind("set_padding", pad_width, mode,
               set_padding(img, pad_width, mode))

UnsetPadding ==
    /\ Len(hist) < MaxOps
    /\ ~val.has
    /\ Rebind("unset_padding", PadArg("None", <<>>), "", unset_padding(img))

Next ==
    \/ SetPad(MaxSetPads, {"constant"})
    \/ RemovePad

Spec == Init /\ [][Next]_vars

(***************************************************************************)
(* The validation session: an image is padded by either padding method,   *)
(* then a validation object is built from it (as an image or as its raw   *)
(* array) and from the image it was made from.                            *)
(***************************************************************************)
Validation ==
    \E observed \in {img, ndarray(img.data)},
       expected \in {img, orig, ndarray(orig.data)},
       unpad \in BOOLEAN :
        LET r == validation(observed, expected, unpad)
        IN  /\ val' = r.out
            /\ ret' = [op |-> "validation", exc |-> r.exc, unpad |-> unpad,
                       observed |-> observed, expected |-> expected]
            /\ UNCHANGED <<img, orig, prev, hist>>

NextVal ==
    \/ SetPad(MaxSetPads, Modes)
    \/ SetPadding(MaxSetPads, Modes)
    \/ RemovePad
    \/ UnsetPadding
    \/ Validation

SpecVal == Init /\ [][NextVal]_vars

(***************************************************************************)
(* The coordinate session: an image is constructed and its coordinate     *)
(* vectors are asked for; ret is what the last call returned.             *)
(***************************************************************************)
CoordGeometries ==
    Geometries \cup {[offset |-> <<-4, 1>>, scale |-> <<-1, 2>>]}

CoordImages ==
    {numpy2ModI(Labelled(Nx, Ny), g.scale, g.offset) :
        Nx \in 1..MaxAxis, Ny \in 1..MaxAxis, g \in CoordGeometries}

ShiftValues == {Shift("int", 1), Shift("float", 3)}

ShiftArgs ==
    {NoShifts, Shifts(<<>>)}
    \cup {Shifts(<<a>>) : a \in ShiftValues}
    \cup {Shifts(<<a, b>>) : a, b \in ShiftValues}
    \cup {Shifts(<<a, b, c>>) : a, b, c \in ShiftValues}

InitCoord ==
    /\ orig \in CoordImages
    /\ img = orig
    /\ prev = orig
    /\ hist = <<>>
    /\ ret = NoRet
    /\ val = NoVal

GetRealSpace ==
    \E shifted \in BOOLEAN, shifts \in ShiftArgs :
        LET r == get_real_space(img, shifted, shifts)
        IN  /\ ret' = [op |-> "get_real_space", shifted |-> shifted,
                       shifts |-> shifts, exc |-> r.exc, coords |-> r.coords]
            /\ UNCHANGED <<img, orig, prev, hist, val>>

GetFourierSpace ==
    \E retstr \in {"square", "vectors", "both", "k2"} :
        LET r == get_fourier_space(img, retstr)
        IN  /\ ret' = [op |-> "get_fourier_space", retstr |-> retstr,
                       exc |-> r.exc, kx |-> r.kx, ky |-> r.ky,
                       kden |-> r.kden, k2 |-> r.k2, k2den |-> r.k2den]
            /\ UNCHANGED <<img, orig, prev, hist, val>>

NextCoord ==
    \/ GetRealSpace
    \/ GetFourierSpace

SpecCoord == InitCoord /\ [][NextCoord]_vars

(***************************************************************************)
(* The digitization session: an image is constructed and its radial or    *)
(* angular mesh is digitized.  The calls are those whose mesh and bin size *)
(* are integers of the unit.                                               *)
(***************************************************************************)
DigitGeometries ==
    CoordGeometries \cup {[offset |-> <<0, 0>>, scale |-> <<3, 4>>]}

DigitImages ==
    {numpy2ModI(Labelled(Nx, Ny), g.scale, g.offset) :
        Nx \in 1..MaxAxis, Ny \in 1..MaxAxis, g \in DigitGeometries}

BinSizes ==
    {BinNone} \cup {BinInt(n) : n \in 1..MaxBins}
    \cup {BinFloat(1, 2), BinFloat(1, 1)}

DigitShifts == {NoShifts, Shifts(<<Shift("int", 1), Shift("float", 3)>>)}

InitDigit ==
    /\ orig \in DigitImages
    /\ img = orig
    /\ prev = orig
    /\ hist = <<>>
    /\ ret = NoRet
    /\ val = NoVal

Digitized(op, bin_size, shifted, shifts, r) ==
    /\ ret' = [op |-> op, arg |-> bin_size, shifted |-> shifted,
               shifts |-> shifts, exc |-> r.exc, mesh |-> r.mesh,
               mden |-> r.mden, bin_size |-> r.bin_size, bins |-> r.bins,
               idx |-> r.idx, data |-> r.data]
    /\ UNCHANGED <<img, orig, prev, hist, val>>

GetDigitizedRadius ==
    \E bin_size \in BinSizes, shifted \in BOOLEAN, shifts \in DigitShifts :
        LET rs == get_real_space(img, shifted, shifts)
        IN  /\ Representable(radius_mesh(rs.coords[1], rs.coords[2]))
            /\ bin_size.type = "None" => scales_norm(img).exact
            /\ Digitized("get_digitized_radius", bin_size, shifted, shifts,
                         get_digitized_radius(img, bin_size, shifted, shifts))

GetDigitizedAngle ==
    \E bin_size \in BinSizes, shifted \in BOOLEAN, shifts \in DigitShifts :
        LET rs == get_real_space(img, shifted, shifts)
        IN  /\ Representable(angle_mesh(rs.coords[1], rs.coords[2]))
            /\ bin_size.type = "None" => scales_norm(img).exact
            /\ Digitized("get_digitized_angle", bin_size, shifted, shifts,
                         get_digitized_angle(img, bin_size, shifted, shifts))

NextDigit ==
    \/ GetDigitizedRadius
    \/ GetDigitizedAngle

SpecDigit == InitDigit /\ [][NextDigit]_vars

(***************************************************************************)
(* Claims about the padding manager and the validation constructor.       *)
(***************************************************************************)
Last == hist[Len(hist)]

\* img = orig.set_pad(w, mode).remove_pad() for a pad width w that was given
\* and accepted.
RoundTrip ==
    /\ Len(hist) = 2
    /\ hist[1].op = "set_pad"
    /\ hist[1].exc = "none"
    /\ hist[1].arg.form # "None"
    /\ hist[2].op = "remove_pad"
    /\ hist[2].exc = "none"

\* C1: for every valid pad width w, remove_pad(set_pad(image, w, 'constant',
\* constant_values=0)) has exactly the array of image.
C1_RoundTripRestoresArray ==
    (RoundTrip /\ hist[1].mode = "constant") => img.data = orig.data

\* C2: for every valid pad width, remove_pad(set_pad(image, w, ...)) has on
\* every signal axis exactly the offset that image had.
C2_RoundTripRestoresOffsets ==
    RoundTrip => img.offset = orig.offset

\* C3: remove_pad on an image without a pad record returns it unchanged, a
\* successful remove_pad leaves no pad record on its result, and so a second
\* remove_pad returns what the first returned.
C3_RemovePadIdempotent ==
    (Len(hist) >= 1 /\ Last.op = "remove_pad") =>
        /\ ~prev.pad_width.has => (Last.exc = "none" /\ img = prev)
        /\ Last.exc = "none" => ~img.pad_width.has
        /\ (/\ Len(hist) >= 2
            /\ hist[Len(hist) - 1].op = "remove_pad"
            /\ hist[Len(hist) - 1].exc = "none") => img = prev

\* A padded image had its pad removed, and remove_pad was called again.
C3_Witness ==
    /\ Len(hist) = 3
    /\ hist[1].op = "set_pad"
    /\ hist[1].arg = PadArg("nested", << <<1, 1>>, <<1, 1>> >>)
    /\ hist[2].op = "remove_pad"
    /\ hist[3].op = "remove_pad"
    /\ img = prev
    /\ img.data = orig.data
    /\ Len(orig.data) = 2

TooManyEntries(pad_width) ==
    /\ pad_width.form \in {"flat", "nested", "ragged", "deep"}
    /\ Len(pad_width.v) > signal_dimension

BadEntryLength(pad_width) ==
    /\ pad_width.form \in {"nested", "ragged"}
    /\ \E i \in 1..Len(pad_width.v) : Len(pad_width.v[i]) \notin {1, 2}

\* C4: set_pad raises ValueError when pad_width has more entries than the
\* image has signal axes and when a per-axis entry has a length other than
\* 1 or 2, and the image is after a failed call what it was before it.
C4_SetPadRejects ==
    (Len(hist) >= 1 /\ Last.op = "set_pad") =>
        /\ (TooManyEntries(Last.arg) \/ BadEntryLength(Last.arg))
              => Last.exc = "ValueError"
        /\ Last.exc # "none" => img = prev

\* set_pad was called with three entries on a 2-D image and raised.
C4_Witness ==
    /\ Len(hist) = 1
    /\ Last.op = "set_pad"
    /\ Last.arg = PadArg("nested", << <<1>>, <<0>>, <<1>> >>)
    /\ Last.exc = "ValueError"
    /\ img = orig

PaddedBySetPad(image) ==
    image.cls = "ModifiedImage" /\ image.pad_width.has

\* C5: a validation built with unpad=True from images padded by set_pad holds,
\* for observed and for expected independently, the array remove_pad returns;
\* built with unpad=False from a raw array it holds the array wrapped as an
\* image.
C5_ValidationUnpads ==
    (ret.op = "validation" /\ val.has) =>
        /\ (ret.unpad /\ PaddedBySetPad(ret.observed))
              => val.obs.data = remove_pad(ret.observed).out.data
        /\ (ret.unpad /\ PaddedBySetPad(ret.expected))
              => val.exp.data = remove_pad(ret.expected).out.data
        /\ (~ret.unpad /\ ret.observed.cls = "ndarray")
              => val.obs = ModifiedImage(ret.observed.data)
        /\ (~ret.unpad /\ ret.expected.cls = "ndarray")
              => val.exp = ModifiedImage(ret.expected.data)

(***************************************************************************)
(* Claims about the coordinate engine.                                     *)
(***************************************************************************)
\* get_real_space(shifted=True) returned.
ShiftedCall ==
    /\ ret.op = "get_real_space"
    /\ ret.shifted
    /\ ~ret.shifts.given
    /\ ret.exc = "none"

\* Twice (offset + index * scale - half the span) of signal axis io, the
\* span being that of the axis' N pixels, (N - 1) * scale.
CentredTwice(io, index) ==
    2 * (img.offset[io] + index * img.scale[io])
        - (signal_shape(img)[io] - 1) * img.scale[io]

C7_BadShiftsRaiseValueError ==
    (/\ ret.op = "get_real_space"
     /\ ret.shifts.given
     /\ Len(ret.shifts.v) # 2) => (ret.exc = "ValueError" /\ ret.coords = <<>>)

\* C8: each vector returned by get_fourier_space is a rotation of the N
\* values (j - floor(N/2)) * 2*pi/(N*d), j = 0..N-1, with the zero frequency
\* at index 0.
C8_FourierVectors ==
    (/\ ret.op = "get_fourier_space"
     /\ ret.retstr \in {"vectors", "both"}) =>
        /\ ret.exc = "none"
        /\ \A io \in 1..2 :
            LET N == signal_shape(img)[io]
                k == IF io = 1 THEN ret.kx ELSE ret.ky
            IN  /\ Len(k) = N
                /\ ret.kden[io] = N * img.scale[io]
                /\ k[1] = 0
                /\ \E s \in 0..(N - 1) :
                       \A i \in 0..(N - 1) :
                           k[i + 1] = ((i + s) % N) - (N \div 2)

\* The vectors of an image with an odd and an even axis.
C8_Witness ==
    /\ ret.op = "get_fourier_space"
    /\ ret.retstr = "vectors"
    /\ signal_shape(img) = <<3, 4>>
    /\ ret.kx = <<0, 1, -1>>
    /\ ret.ky = <<0, 1, -2, -1>>

(***************************************************************************)
(* Claims about the digitization.                                          *)
(***************************************************************************)
DigitOps == {"get_digitized_radius", "get_digitized_angle"}

\* A digitization returned a labelled mesh.
DigitReturned == ret.op \in DigitOps /\ ret.exc = "none"

\* The samples of the last digitized mesh, as positions <<row, column>>.
Samples == {<<r, c>> : r \in 1..Len(ret.mesh), c \in 1..Len(ret.mesh[1])}

\* The sample at position p, over the denominator of the edges.
SampleAt(p) == ret.bin_size[2] * ret.mesh[p[1]][p[2]]

Edges == {ret.bins[j] : j \in 1..Len(ret.bins)}

\* C9 as stated: every label L is the left edge of the sample's bin,
\* L <= sample < L + bin_size.
C9_LabelIsLeftEdge ==
    DigitReturned =>
        \A p \in Samples :
            LET L == ret.data[p[1]][p[2]]
            IN  /\ L \in Edges
                /\ L <= SampleAt(p)
                /\ SampleAt(p) < L + ret.bin_size[1]

\* C9 amended: every label L is the right (upper) edge of the sample's bin,
\* L - bin_size <= sample < L.
C9_LabelIsRightEdge ==
    DigitReturned =>
        \A p \in Samples :
            LET L == ret.data[p[1]][p[2]]
            IN  /\ L \in Edges
                /\ L - ret.bin_size[1] <= SampleAt(p)
                /\ SampleAt(p) < L

\* The radius 0, 1, 2, 3 of a row of four pixels digitized with bin size 1:
\* the labels are 1, 2, 3, 4 (all in half units).
C9_Witness ==
    /\ DigitReturned
    /\ ret.op = "get_digitized_radius"
    /\ ret.mesh = << <<0, 2, 4, 6>> >>
    /\ ret.bin_size = <<2, 1>>
    /\ ret.data = << <<2, 4, 6, 8>> >>

\* C10: for a positive bin size every sample gets one label taken from the
\* edges, the index into the edges is in range, also for the sample equal
\* to max(mesh), and the labels are a non-empty ascending set.
C10_BinningComplete ==
    (ret.op \in DigitOps /\ ret.bin_size[1] > 0) =>
        /\ ret.exc = "none"
        /\ \A p \in Samples :
               /\ ret.idx[p[1]][p[2]] \in 0..(Len(ret.bins) - 1)
               /\ ret.data[p[1]][p[2]] = ret.bins[ret.idx[p[1]][p[2]] + 1]
        /\ \A j, k \in 1..Len(ret.bins) : j < k => ret.bins[j] < ret.bins[k]
        /\ {ret.data[p[1]][p[2]] : p \in Samples} # {}

\* A mesh whose span is a whole number of bins: max(mesh) sits on an edge
\* and takes the last index of the edges.
C10_Witness ==
    /\ ret.op \in DigitOps
    /\ ret.bin_size[1] > 0
    /\ MatMax(ret.mesh) > MatMin(ret.mesh)
    /\ (ret.bin_size[2] * (MatMax(ret.mesh) - MatMin(ret.mesh)))
           % ret.bin_size[1] = 0
    /\ \E p \in Samples :
           /\ ret.mesh[p[1]][p[2]] = MatMax(ret.mesh)
           /\ ret.idx[p[1]][p[2]] = Len(ret.bins) - 1

(***************************************************************************)
(* Binary integration.  An integral is a sequence of fractions             *)
(* <<num, den>>; a complex array is a record of its real and imaginary    *)
(* matrices.                                                               *)
(***************************************************************************)
\* a.ravel(): the rows of a matrix one after the other.
RECURSIVE ravel(_)
ravel(m) == IF m = <<>> THEN <<>> ELSE Head(m) \o ravel(Tail(m))

\* The elements of a finite set of integers in descending order.
RECURSIVE Descending(_)
Descending(S) ==
    IF S = {} THEN <<>>
    ELSE LET m == CHOOSE v \in S : \A w \in S : w <= v
         IN  <<m>> \o Descending(S \ {m})

\* The elements of a finite set of integers in ascending order.
RECURSIVE Ascending(_)
Ascending(S) ==
    IF S = {} THEN <<>>
    ELSE LET m == CHOOSE v \in S : \A w \in S : v <= w
         IN  <<m>> \o Ascending(S \ {m})

\* np.unique(a, return_inverse=True, return_counts=True) of a flat array:
\* the sorted distinct values, the index in them of every element and how
\* often each occurs.
np_unique(a) ==
    LET dst == Ascending({a[p] : p \in 1..Len(a)})
    IN  [dst |-> dst,
         inv |-> [p \in 1..Len(a) |->
                     (CHOOSE i \in 1..Len(dst) : dst[i] = a[p]) - 1],
         cts |-> [i \in 1..Len(dst) |->
                     Cardinality({p \in 1..Len(a) : a[p] = dst[i]})]]

\* The sum of weights[p] over the positions p <= n with inv[p] = i.
RECURSIVE bin_sum(_, _, _, _)
bin_sum(inv, weights, i, n) ==
    IF n = 0 THEN 0
    ELSE bin_sum(inv, weights, i, n - 1)
             + (IF inv[n] = i THEN weights[n] ELSE 0)

\* np.bincount(inv, weights=weights), inv non-empty.
np_bincount(inv, weights) ==
    [i \in 1..(VecMax(inv) + 1) |-> bin_sum(inv, weights, i - 1, Len(inv))]

\* idata / cts when normalize, idata otherwise.
normalized(idata, cts, normalize) ==
    [i \in 1..Len(idata) |->
        IF normalize THEN <<idata[i], cts[i]>> ELSE <<idata[i], 1>>]

\* integrate_binary_real.
integrate_binary_real(sdata, bin_mask, normalize) ==
    LET u == np_unique(ravel(bin_mask))
        idata == np_bincount(u.inv, ravel(sdata))
    IN  normalized(idata, u.cts, normalize)

\* integrate_binary_comp as it would be if only the real part were divided
\* by the counts.
integrate_binary_comp_real_normalized(sdata, bin_mask, normalize) ==
    LET u == np_unique(ravel(bin_mask))
    IN  [real |-> normalized(np_bincount(u.inv, ravel(sdata.real)),
                             u.cts, normalize),
         imag |-> normalized(np_bincount(u.inv, ravel(sdata.imag)),
                             u.cts, FALSE)]

\* integrate_binary_comp.
integrate_binary_comp(sdata, bin_mask, normalize) ==
    LET u == np_unique(ravel(bin_mask))
    IN  [real |-> normalized(np_bincount(u.inv, ravel(sdata.real)),
                             u.cts, normalize),
         imag |-> normalized(np_bincount(u.inv, ravel(sdata.imag)),
                             u.cts, normalize)]

\* A complex array and a real one; iscomplexobj tells them apart.
Complex(re, im) == [iscomplexobj |-> TRUE, real |-> re, imag |-> im]
Real(re) == [iscomplexobj |-> FALSE, real |-> re, imag |-> <<>>]

\* np.unique(np.round(np.diff(dst), 5)).size.
nbins(dst) == Cardinality({dst[i + 1] - dst[i] : i \in 1..(Len(dst) - 1)})

\* ModifiedImage.integrate_binary on the array sdata of the image; bin_mask
\* is the data of the mask, which has no navigation axis.
integrate_binary(sdata, bin_mask, normalize) ==
    LET idata == IF sdata.iscomplexobj
                 THEN integrate_binary_comp(sdata, bin_mask, normalize)
                 ELSE [real |-> integrate_binary_real(sdata.real, bin_mask,
                                                      normalize),
                       imag |-> <<>>]
        dst == np_unique(ravel(bin_mask)).dst
    IN  [cls |-> "Signal1D", data |-> idata, axis |-> dst,
         regular |-> nbins(dst) = 1]

\* ModifiedImage.integrate_radial.
integrate_radial(self, sdata, bin_size, shifted, shifts, normalize) ==
    LET radius == get_digitized_radius(self, bin_size, shifted, shifts)
    IN  IF radius.exc # "none"
        THEN [exc |-> radius.exc, bin_mask |-> <<>>, out |-> <<>>]
        ELSE [exc |-> "none", bin_mask |-> radius.data,
              out |-> integrate_binary(sdata, radius.data, normalize)]

\* ModifiedImage.integrate_angular.
integrate_angular(self, sdata, bin_size, shifted, shifts, normalize) ==
    LET angle == get_digitized_angle(self, bin_size, shifted, shifts)
    IN  IF angle.exc # "none"
        THEN [exc |-> angle.exc, bin_mask |-> <<>>, out |-> <<>>]
        ELSE [exc |-> "none", bin_mask |-> angle.data,
              out |-> integrate_binary(sdata, angle.data, normalize)]

(***************************************************************************)
(* The integration session: an image, real or complex, is integrated once *)
(* over a mask of its shape, or over its digitized radius or angle.       *)
(***************************************************************************)
MaskLabels == {-1, 0, 2}

\* The masks of the shape of the image.
Masks(self) ==
    [1..signal_shape(self)[2] -> [1..signal_shape(self)[1] -> MaskLabels]]

\* The array of the image, and a complex array with it as real part.
Arrays(self) ==
    {Real(self.data),
     Complex(self.data,
             [r \in 1..Len(self.data) |-> [c \in 1..Len(self.data[1]) |->
                 7 - 2 * self.data[r][c]]])}

IntegralBinSizes == {BinNone, BinInt(2), BinFloat(1, 1)}

Integrated(op, sdata, bin_mask, normalize, exc, out) ==
    /\ ret' = [op |-> op, sdata |-> sdata, bin_mask |-> bin_mask,
               normalize |-> normalize, exc |-> exc, out |-> out]
    /\ UNCHANGED <<img, orig, prev, hist, val>>

IntegrateBinary ==
    /\ ret = NoRet
    /\ \E sdata \in Arrays(img), bin_mask \in Masks(img), normalize \in BOOLEAN :
        Integrated("integrate_binary", sdata, bin_mask, normalize, "none",
                   integrate_binary(sdata, bin_mask, normalize))

IntegrateRadial ==
    /\ ret = NoRet
    /\ \E sdata \in Arrays(img), bin_size \in IntegralBinSizes,
       shifted \in BOOLEAN, normalize \in BOOLEAN :
        LET rs == get_real_space(img, shifted, NoShifts)
            r == integrate_radial(img, sdata, bin_size, shifted, NoShifts,
                                  normalize)
        IN  /\ Representable(radius_mesh(rs.coords[1], rs.coords[2]))
            /\ bin_size.type = "None" => scales_norm(img).exact
            /\ Integrated("integrate_radial", sdata, r.bin_mask, normalize,
                          r.exc, r.out)

IntegrateAngular ==
    /\ ret = NoRet
    /\ \E sdata \in Arrays(img), bin_size \in IntegralBinSizes,
       shifted \in BOOLEAN, normalize \in BOOLEAN :
        LET rs == get_real_space(img, shifted, NoShifts)
            r == integrate_angular(img, sdata, bin_size, shifted, NoShifts,
                                   normalize)
        IN  /\ Representable(angle_mesh(rs.coords[1], rs.coords[2]))
            /\ bin_size.type = "None" => scales_norm(img).exact
            /\ Integrated("integrate_angular", sdata, r.bin_mask, normalize,
                          r.exc, r.out)

IntegralImages ==
    {numpy2ModI(Labelled(Nx, Ny), g.scale, g.offset) :
        Nx \in 1..MaxN, Ny \in 1..MaxN, g \in DigitGeometries}

InitIntegral ==
    /\ orig \in IntegralImages
    /\ img = orig
    /\ prev = orig
    /\ hist = <<>>
    /\ ret = NoRet
    /\ val = NoVal

NextIntegral ==
    \/ IntegrateBinary
    \/ IntegrateRadial
    \/ IntegrateAngular

SpecIntegral == InitIntegral /\ [][NextIntegral]_vars

(***************************************************************************)
(* Claims about the binary integration.                                    *)
(***************************************************************************)
IntegralOps == {"integrate_binary", "integrate_radial", "integrate_angular"}

\* An integration returned.
IntegralReturned == ret.op \in IntegralOps /\ ret.exc = "none"

\* The pixels of the last mask, the labels on them and the pixels of a label.
Pixels ==
    {<<r, c>> : r \in 1..Len(ret.bin_mask), c \in 1..Len(ret.bin_mask[1])}

LabelsOfMask == {ret.bin_mask[p[1]][p[2]] : p \in Pixels}

PixelsOf(L) == {p \in Pixels : ret.bin_mask[p[1]][p[2]] = L}

\* The place of label L among the labels in ascending order.
Rank(L) == Cardinality({l \in LabelsOfMask : l < L}) + 1

\* The sum of the matrix m over the pixels P.
RECURSIVE SumOver(_, _)
SumOver(P, m) ==
    IF P = {} THEN 0
    ELSE LET p == CHOOSE q \in P : TRUE
         IN  m[p[1]][p[2]] + SumOver(P \ {p}, m)

\* The fraction v is the sum of m over the pixels of L, divided by their
\* number when normalize.
IsIntegralOf(v, m, L) ==
    LET count == IF ret.normalize THEN Cardinality(PixelsOf(L)) ELSE 1
    IN  v[2] > 0 /\ v[1] * count = SumOver(PixelsOf(L), m) * v[2]

\* C11: integrate_binary returns one value per distinct label, in ascending
\* label order: the sum of the data over the pixels of the label, divided by
\* their number when normalize.
C11_IntegralPerLabel ==
    IntegralReturned =>
        /\ Len(ret.out.data.real) = Cardinality(LabelsOfMask)
        /\ Len(ret.out.axis) = Cardinality(LabelsOfMask)
        /\ \A L \in LabelsOfMask :
               /\ ret.out.axis[Rank(L)] = L
               /\ IsIntegralOf(ret.out.data.real[Rank(L)], ret.sdata.real, L)
               /\ ret.sdata.iscomplexobj =>
                      IsIntegralOf(ret.out.data.imag[Rank(L)],
                                   ret.sdata.imag, L)

\* A 2x2 image integrated over a mask with two pixels on each of two
\* labels, normalized.
C11_Witness ==
    /\ IntegralReturned
    /\ ret.normalize
    /\ ~ret.sdata.iscomplexobj
    /\ ret.sdata.real = << <<1, 2>>, <<3, 4>> >>
    /\ ret.bin_mask = << <<2, -1>>, <<-1, 2>> >>
    /\ ret.out.axis = <<-1, 2>>
    /\ ret.out.data.real = << <<5, 2>>, <<5, 2>> >>

\* C12: the integral of a complex array is the integral of its real part
\* plus i times the integral of its imaginary part, for both settings of
\* normalize, with the same grouping of the pixels.
C12_ComplexIsComponentwise ==
    (IntegralReturned /\ ret.sdata.iscomplexobj) =>
        LET re == integrate_binary(Real(ret.sdata.real), ret.bin_mask,
                                   ret.normalize)
            im == integrate_binary(Real(ret.sdata.imag), ret.bin_mask,
                                   ret.normalize)
        IN  /\ ret.out.data.real = re.data.real
            /\ ret.out.data.imag = im.data.real
            /\ ret.out.axis = re.axis
            /\ ret.out.axis = im.axis

\* A complex 2x2 image integrated with normalization over three labels.
C12_Witness ==
    /\ IntegralReturned
    /\ ret.sdata.iscomplexobj
    /\ ret.normalize
    /\ ret.sdata.real = << <<1, 2>>, <<3, 4>> >>
    /\ ret.sdata.imag = << <<5, 3>>, <<1, -1>> >>
    /\ ret.bin_mask = << <<0, 2>>, <<0, -1>> >>
    /\ ret.out.data.real = << <<4, 1>>, <<4, 2>>, <<2, 1>> >>
    /\ ret.out.data.imag = << <<-1, 1>>, <<6, 2>>, <<3, 1>> >>

(***************************************************************************)
(* The contrast transfer function.  The optical parameters are fractions  *)
(* <<num, den>> or None; squared wave vectors are fractions of (2 pi)^2.   *)
(* The images of the model carry no ModImage metadata, and the argument   *)
(* angles is left at None.  An image has no navigation axis unless it is  *)
(* a focal series, which carries the values of its navigation axes in a   *)
(* field nav (its data stand for one plane).  A sample of the CTF is kept *)
(* as its aperture factor and the phase Chi * defocus, Chi being named by *)
(* the k^2 it belongs to, or by kx, ky and the angle in astigmatism mode. *)
(* The Fourier-space axes set on the result (lines 750-754) are not       *)
(* modelled.                                                               *)
(***************************************************************************)
None == [given |-> FALSE, v |-> <<0, 1>>]

Num(num, den) == [given |-> TRUE, v |-> <<num, den>>]

\* The defoci argument: None, a list of values, or a bare number.
DefociNone == [form |-> "None", v |-> <<>>]
DefociList(v) == [form |-> "list", v |-> v]
DefociScalar(d) == [form |-> "scalar", v |-> <<d>>]

\* An image with navigation axes of the given values.
FocalSeries(self, nav) == self @@ [nav |-> nav]

\* self.axes_manager.navigation_axes, each axis as its values.
navigation_axes(self) == IF "nav" \in DOMAIN self THEN self.nav ELSE <<>>

\* a <= b and a < b for fractions with positive denominators.
Leq(a, b) == a[1] * b[2] <= b[1] * a[2]
Less(a, b) == a[1] * b[2] < b[1] * a[2]

\* A parameter given as None is read as 1.
OrOne(p) == IF p.given THEN p.v ELSE <<1, 1>>

\* wnum / (2 pi) = nref / wlen (lines 679-690).
wave_number(wlen, nref) == <<nref[1] * wlen[2], nref[2] * wlen[1]>>

\* k2Aperture / (2 pi)^2 = (NA * wnum / nref)^2 (line 709).
k2Aperture(NA, wnum, nref) ==
    LET a == <<NA[1] * wnum[1] * nref[2], NA[2] * wnum[2] * nref[1]>>
    IN  <<a[1] * a[1], a[2] * a[2]>>

\* The factors of a sample: nothing, everything, or the cosine bell at t.
Blocked == [kind |-> "zero", t |-> <<0, 1>>]
Open == [kind |-> "one", t |-> <<0, 1>>]
Bell(t) == [kind |-> "bell", t |-> t]

\* Lines 710-720: the aperture at a sample with squared wave vector k2.
aperture(k2, k2Ap, fsmooth) ==
    IF Leq(k2, k2Ap) THEN Open
    ELSE IF fsmooth.given
            /\ Less(k2, <<(fsmooth.v[1] + fsmooth.v[2]) * k2Ap[1],
                          fsmooth.v[2] * k2Ap[2]>>)
    THEN Bell(<<(k2[1] * k2Ap[2] - k2Ap[1] * k2[2]) * fsmooth.v[2],
                k2[2] * fsmooth.v[1] * k2Ap[1]>>)
    ELSE Blocked

\* The values of a sample: 0, or factor * exp(i * phase), where phase is 0
\* or Chi(k2) * defocus, written <<k2 numerator, defocus>>.
NoPhase == <<0, 0>>
ZeroValue == [nan |-> FALSE, amp |-> Blocked, phase |-> NoPhase]
NaNValue == [nan |-> TRUE, amp |-> Blocked, phase |-> NoPhase]

\* ctf_sample as it would be with a NaN of Chi replaced by 0 before the
\* exponential is taken: exp(1j * 0) * aperture where wnum^2 < k2.
ctf_sample_zero_phase(k2, wnum, amp, defocus) ==
    IF amp.kind = "zero" THEN ZeroValue
    ELSE [nan |-> FALSE, amp |-> amp,
          phase |-> IF k2[1] = 0 \/ defocus = 0
                       \/ Less(<<wnum[1] * wnum[1], wnum[2] * wnum[2]>>, k2)
                    THEN NoPhase
                    ELSE <<k2[1], defocus>>]

\* Line 700 and 724: exp(1j * Chi * defocus) * aperture for one sample,
\* with Chi = sqrt(wnum^2 - k2) - wnum, which is NaN where wnum^2 < k2.
ctf_sample(k2, wnum, amp, defocus) ==
    IF Less(<<wnum[1] * wnum[1], wnum[2] * wnum[2]>>, k2) THEN NaNValue
    ELSE IF amp.kind = "zero" THEN ZeroValue
    ELSE [nan |-> FALSE, amp |-> amp,
          phase |-> IF k2[1] = 0 \/ defocus = 0 THEN NoPhase
                    ELSE <<k2[1], defocus>>]

\* np.nan_to_num of a sample.
nan_to_num(v) == IF v.nan THEN ZeroValue ELSE v

\* The shape of np.squeeze of an array of the given shape.
squeeze(shape) == SelectSeq(shape, LAMBDA n : n # 1)

\* What get_contrast_transfer hands back: None, or the CTF image with its
\* array (one slice per defocus value, shape as squeezed), the number of
\* navigation axes, the values put on axes_manager[0] and the metadata.
NoneReturned ==
    [isNone |-> TRUE, shape |-> <<>>, slices |-> <<>>, depthdims |-> 0,
     axis0 |-> <<>>, wave_length |-> <<1, 1>>, refractive_index |-> <<1, 1>>,
     numerical_aperture |-> <<1, 1>>, f_smooth_aperture |-> None]

\* contrast_transfer as it would be if every slice took the first defocus
\* value.
contrast_transfer_first_defocus(self, defoci, wlen, nref, NA, fsmooth) ==
    LET Nx == signal_shape(self)[1]
        Ny == signal_shape(self)[2]
        fs == get_fourier_space(self, "both")
        wnum == wave_number(wlen, nref)
        k2Ap == k2Aperture(NA, wnum, nref)
        CTF == [j \in 1..Len(defoci) |-> [r \in 1..Ny |-> [c \in 1..Nx |->
                   LET k2 == <<fs.k2[r][c], fs.k2den>>
                   IN  nan_to_num(ctf_sample(k2, wnum,
                                             aperture(k2, k2Ap, fsmooth),
                                             defoci[1]))]]]
        shape == squeeze(<<Len(defoci), Ny, Nx>>)
    IN  IF Len(shape) < signal_dimension
        THEN [exc |-> "ValueError", out |-> NoneReturned]
        ELSE [exc |-> "none",
              out |-> [isNone |-> FALSE, shape |-> shape, slices |-> CTF,
                       depthdims |-> Len(shape) - signal_dimension,
                       axis0 |-> defoci, wave_length |-> wlen,
                       refractive_index |-> nref, numerical_aperture |-> NA,
                       f_smooth_aperture |-> fsmooth]]

\* Lines 692-755 for a list of defocus values.
contrast_transfer(self, defoci, wlen, nref, NA, fsmooth) ==
    LET Nx == signal_shape(self)[1]
        Ny == signal_shape(self)[2]
        fs == get_fourier_space(self, "both")
        wnum == wave_number(wlen, nref)
        k2Ap == k2Aperture(NA, wnum, nref)
        CTF == [j \in 1..Len(defoci) |-> [r \in 1..Ny |-> [c \in 1..Nx |->
                   LET k2 == <<fs.k2[r][c], fs.k2den>>
                   IN  nan_to_num(ctf_sample(k2, wnum,
                                             aperture(k2, k2Ap, fsmooth),
                                             defoci[j]))]]]
        shape == squeeze(<<Len(defoci), Ny, Nx>>)
    IN  IF Len(shape) < signal_dimension
        THEN [exc |-> "ValueError", out |-> NoneReturned]
        ELSE [exc |-> "none",
              out |-> [isNone |-> FALSE, shape |-> shape, slices |-> CTF,
                       depthdims |-> Len(shape) - signal_dimension,
                       axis0 |-> defoci, wave_length |-> wlen,
                       refractive_index |-> nref, numerical_aperture |-> NA,
                       f_smooth_aperture |-> fsmooth]]

\* Lines 696-698 and 728 for one sample: exp(1j * Chi * defocus) * aperture
\* with Chi = sqrt(wnum^2 - ka2) - 0.5 * (sqrt(wnum^2 - k2) + wnum), where
\* ka2 = (kx cos(angle) + ky sin(angle))^2 <= k2.  Chi is NaN where
\* wnum^2 < k2 and 0 where k2 = 0.
astigmatic_sample(k2, kx, ky, wnum, amp, defocus, angle) ==
    IF Less(<<wnum[1] * wnum[1], wnum[2] * wnum[2]>>, k2) THEN NaNValue
    ELSE IF amp.kind = "zero" THEN ZeroValue
    ELSE [nan |-> FALSE, amp |-> amp,
          phase |-> IF k2[1] = 0 \/ defocus = 0 THEN NoPhase
                    ELSE <<kx, ky, angle, defocus>>]

\* Lines 692-770 in astigmatism mode, for lists of defocus values and of
\* angles: one slice per defocus value and angle.
astigmatic_contrast_transfer(self, defoci, angles, wlen, nref, NA, fsmooth) ==
    LET Nx == signal_shape(self)[1]
        Ny == signal_shape(self)[2]
        fs == get_fourier_space(self, "both")
        wnum == wave_number(wlen, nref)
        k2Ap == k2Aperture(NA, wnum, nref)
        CTF == [j \in 1..Len(defoci) |-> [a \in 1..Len(angles) |->
                [r \in 1..Ny |-> [c \in 1..Nx |->
                   LET k2 == <<fs.k2[r][c], fs.k2den>>
                   IN  nan_to_num(astigmatic_sample(
                           k2, fs.kx[c], fs.ky[r], wnum,
                           aperture(k2, k2Ap, fsmooth),
                           defoci[j], angles[a]))]]]]
        shape == squeeze(<<Len(defoci), Len(angles), Ny, Nx>>)
        depthdims == Len(shape) - signal_dimension
    IN  IF Len(shape) < signal_dimension
        THEN [exc |-> "ValueError", out |-> NoneReturned]
        ELSE IF depthdims = 1 /\ Len(angles) < 2
        THEN [exc |-> "IndexError", out |-> NoneReturned]
        ELSE IF depthdims = 0
        THEN [exc |-> "IndexError", out |-> NoneReturned]
        ELSE [exc |-> "none",
              out |-> [isNone |-> FALSE, shape |-> shape, slices |-> CTF,
                       depthdims |-> depthdims,
                       angles |-> angles, astigmatic_defocus |-> defoci,
                       wave_length |-> wlen,
                       refractive_index |-> nref, numerical_aperture |-> NA,
                       f_smooth_aperture |-> fsmooth]]

\* Lines 661-665: with angles=None the angles are the values of navigation
\* axis ax_count (counted from 0), if the image has one.
angles_from_axes(self, ax_count) ==
    IF Len(navigation_axes(self)) > ax_count
    THEN [given |-> TRUE, v |-> navigation_axes(self)[ax_count + 1]]
    ELSE [given |-> FALSE, v |-> <<>>]

\* Lines 657-772 for a list of defocus values, ax_count navigation axes
\* having been read for them.
contrast_transfer_of_axes(self, defoci, ax_count, wlen, nref, NA, fsmooth) ==
    LET angles == angles_from_axes(self, ax_count)
    IN  IF angles.given
        THEN astigmatic_contrast_transfer(self, defoci, angles.v, wlen, nref,
                                          NA, fsmooth)
        ELSE contrast_transfer(self, defoci, wlen, nref, NA, fsmooth)

\* get_contrast_transfer as it would be without the except clause of
\* lines 654-656.
get_contrast_transfer_no_except(self, defoci, wlen, nref, NA, fsmooth) ==
    IF defoci.form = "None" /\ Len(navigation_axes(self)) = 0
    THEN [exc |-> "IndexError", out |-> NoneReturned]
    ELSE IF defoci.form = "scalar"
    THEN [exc |-> "IndexError", out |-> NoneReturned]
    ELSE IF defoci.form = "None"
    THEN contrast_transfer_of_axes(self, navigation_axes(self)[1], 1,
                                   OrOne(wlen), OrOne(nref), OrOne(NA),
                                   fsmooth)
    ELSE contrast_transfer_of_axes(self, defoci.v, 0, OrOne(wlen),
                                   OrOne(nref), OrOne(NA), fsmooth)

\* get_contrast_transfer as it would be with the angles always read from
\* the second navigation axis.
get_contrast_transfer_second_axis(self, defoci, wlen, nref, NA, fsmooth) ==
    IF defoci.form = "None" /\ Len(navigation_axes(self)) = 0
    THEN [exc |-> "none", out |-> NoneReturned]
    ELSE IF defoci.form = "scalar"
    THEN [exc |-> "IndexError", out |-> NoneReturned]
    ELSE IF defoci.form = "None"
    THEN contrast_transfer_of_axes(self, navigation_axes(self)[1], 1,
                                   OrOne(wlen), OrOne(nref), OrOne(NA),
                                   fsmooth)
    ELSE contrast_transfer_of_axes(self, defoci.v, 1, OrOne(wlen),
                                   OrOne(nref), OrOne(NA), fsmooth)

\* ModifiedImage.get_contrast_transfer with angles=None.
get_contrast_transfer(self, defoci, wlen, nref, NA, fsmooth) ==
    IF defoci.form = "None" /\ Len(navigation_axes(self)) = 0
    THEN [exc |-> "none", out |-> NoneReturned]
    ELSE IF defoci.form = "scalar"
    THEN [exc |-> "IndexError", out |-> NoneReturned]
    ELSE IF defoci.form = "None"
    THEN contrast_transfer_of_axes(self, navigation_axes(self)[1], 1,
                                   OrOne(wlen), OrOne(nref), OrOne(NA),
                                   fsmooth)
    ELSE contrast_transfer_of_axes(self, defoci.v, 0, OrOne(wlen),
                                   OrOne(nref), OrOne(NA), fsmooth)

(***************************************************************************)
(* The CTF session: an image is constructed and its CTF is asked for      *)
(* once.                                                                   *)
(***************************************************************************)
Defocus == {0, 2, 5}

DefociArgs ==
    {DefociNone} \cup {DefociScalar(0)}
    \cup {DefociList(<<d>>) : d \in Defocus}
    \cup {DefociList(<<d1, d2>>) : d1, d2 \in Defocus}

WaveLengths == {None, Num(2, 1)}
RefractiveIndices == {None, Num(3, 2)}
Apertures == {None, Num(1, 2), Num(2, 1)}
Smoothings == {None, Num(1, 2)}

CTFImages ==
    {numpy2ModI(Labelled(Nx, Ny), g.scale, g.offset) :
        Nx \in 1..MaxAxis, Ny \in 1..MaxAxis, g \in Geometries}

InitCTF ==
    /\ orig \in CTFImages
    /\ img = orig
    /\ prev = orig
    /\ hist = <<>>
    /\ ret = NoRet
    /\ val = NoVal

GetContrastTransfer ==
    /\ ret = NoRet
    /\ \E defoci \in DefociArgs, wlen \in WaveLengths,
          nref \in RefractiveIndices, NA \in Apertures,
          fsmooth \in Smoothings :
        LET r == get_contrast_transfer(img, defoci, wlen, nref, NA, fsmooth)
        IN  /\ ret' = [op |-> "get_contrast_transfer", defoci |-> defoci,
                       wlen |-> wlen, nref |-> nref, NA |-> NA,
                       fsmooth |-> fsmooth, exc |-> r.exc, out |-> r.out]
            /\ prev' = img
            /\ UNCHANGED <<img, orig, hist, val>>

NextCTF == GetContrastTransfer

SpecCTF == InitCTF /\ [][NextCTF]_vars

(***************************************************************************)
(* Claims about the contrast transfer function.                            *)
(***************************************************************************)
CTFCalled == ret.op = "get_contrast_transfer"

\* C13: with defoci=None on an image without navigation axis the call
\* returns None, raises nothing and leaves the image as it was.
C13_NoDefocusReturnsNone ==
    (CTFCalled /\ ret.defoci.form = "None"
        /\ Len(navigation_axes(prev)) = 0) =>
        /\ ret.exc = "none"
        /\ ret.out.isNone
        /\ img = prev
        /\ img = orig

\* The call without defocus values on a 3x2 image, other parameters given.
C13_Witness ==
    /\ CTFCalled
    /\ ret.defoci.form = "None"
    /\ ret.wlen.given
    /\ ret.NA.given
    /\ signal_shape(img) = <<3, 2>>
    /\ ret.out.isNone

\* The call for the single defocus 0 with a hard aperture and NA <= n.
UnitCheck ==
    /\ CTFCalled
    /\ ret.defoci = DefociList(<<0>>)
    /\ ~ret.fsmooth.given
    /\ Leq(OrOne(ret.NA), OrOne(ret.nref))

\* The squared wave vector of sample <<r, c>> of the image's grid.
K2At(r, c) ==
    LET fs == get_fourier_space(img, "both")
    IN  <<fs.k2[r][c], fs.k2den>>

\* The hard aperture mask (NA * k0 / n)^2 is compared with.
InAperture(r, c) ==
    LET k0 == wave_number(OrOne(ret.wlen), OrOne(ret.nref))
    IN  Leq(K2At(r, c), k2Aperture(OrOne(ret.NA), k0, OrOne(ret.nref)))

\* The returned array is the mask: one slice of the grid's shape.
IsApertureMask ==
    /\ ret.exc = "none"
    /\ ~ret.out.isNone
    /\ Len(ret.out.slices) = 1
    /\ \A r \in 1..signal_shape(img)[2], c \in 1..signal_shape(img)[1] :
           ret.out.slices[1][r][c] =
               IF InAperture(r, c)
               THEN [nan |-> FALSE, amp |-> Open, phase |-> NoPhase]
               ELSE ZeroValue

\* C14 as stated: for defocus 0, no smoothing and NA <= n the CTF is the
\* hard aperture mask, for every grid size.
C14_UnitCheckIsAperture == UnitCheck => IsApertureMask

CTFReturned == CTFCalled /\ ret.exc = "none" /\ ~ret.out.isNone

\* The radicand k0^2 - k^2 is negative at sample <<r, c>>.
Evanescent(r, c) ==
    LET k0 == wave_number(OrOne(ret.wlen), OrOne(ret.nref))
    IN  Less(<<k0[1] * k0[1], k0[2] * k0[2]>>, K2At(r, c))

\* The aperture at sample <<r, c>> under the parameters of the call.
ApertureAt(r, c) ==
    LET k0 == wave_number(OrOne(ret.wlen), OrOne(ret.nref))
    IN  aperture(K2At(r, c), k2Aperture(OrOne(ret.NA), k0, OrOne(ret.nref)),
                 ret.fsmooth)

CTFSamples ==
    {<<j, r, c>> : j \in 1..Len(ret.out.slices),
                   r \in 1..signal_shape(img)[2],
                   c \in 1..signal_shape(img)[1]}

\* C22 as stated: the CTF holds no NaN, and where the radicand is negative
\* the value is exp(i * 0) * aperture.
C22_EvanescentIsAperture ==
    CTFReturned =>
        \A p \in CTFSamples :
            /\ ~ret.out.slices[p[1]][p[2]][p[3]].nan
            /\ Evanescent(p[2], p[3]) =>
                  ret.out.slices[p[1]][p[2]][p[3]] =
                      [nan |-> FALSE, amp |-> ApertureAt(p[2], p[3]),
                       phase |-> NoPhase]

\* C22: the CTF holds no NaN, and where the radicand is negative the value
\* is 0, whatever the aperture is there.
C22_EvanescentIsZero ==
    CTFReturned =>
        \A p \in CTFSamples :
            /\ ~ret.out.slices[p[1]][p[2]][p[3]].nan
            /\ Evanescent(p[2], p[3]) =>
                  ret.out.slices[p[1]][p[2]][p[3]] = ZeroValue

\* A CTF for a nonzero defocus with a sample of negative radicand inside
\* the hard aperture, and a sample of positive radicand that carries the
\* phase of the defocus.
C22_Witness ==
    /\ CTFReturned
    /\ ret.defoci = DefociList(<<5>>)
    /\ \E p \in CTFSamples :
        /\ Evanescent(p[2], p[3])
        /\ ApertureAt(p[2], p[3]) = Open
        /\ ret.out.slices[p[1]][p[2]][p[3]] = ZeroValue
    /\ \E p \in CTFSamples :
        /\ ~Evanescent(p[2], p[3])
        /\ ret.out.slices[p[1]][p[2]][p[3]].phase = <<K2At(p[2], p[3])[1], 5>>

(***************************************************************************)
(* The validation tests.  The Fourier transform is taken on grids of 1, 2 *)
(* or 3 samples per axis, where the real part of a product of two         *)
(* transforms is a fraction: it is kept doubled.  The axes of a           *)
(* transformed image are counted in units of 1 / (2 Nx dx Ny dy).          *)
(***************************************************************************)
\* The sum of the first n entries of a sequence of integers.
RECURSIVE SumTo(_, _)
SumTo(v, n) == IF n = 0 THEN 0 ELSE v[n] + SumTo(v, n - 1)

Sum(v) == SumTo(v, Len(v))

\* 2 * cos(2 pi j / 6).
TwoCos(j) == <<2, 1, -1, -2, -1, 1>>[(j % 6) + 1]

\* 2 * Re(A[v, u] * conj(B[v, u])) for the discrete Fourier transforms A, B
\* of the arrays a, b at the frequency indices u (x) and v (y).
cross_power(a, b, u, v) ==
    LET Nx == Len(a[1])
        Ny == Len(a)
        n == Nx * Ny
        row(p) == ((p - 1) \div Nx) + 1
        col(p) == ((p - 1) % Nx) + 1
        term(p, q) ==
            a[row(p)][col(p)] * b[row(q)][col(q)]
                * TwoCos((6 \div Nx) * u * (col(p) - col(q))
                         + (6 \div Ny) * v * (row(p) - row(q)))
    IN  Sum([t \in 1..(n * n) |-> term(((t - 1) \div n) + 1,
                                       ((t - 1) % n) + 1)])

\* np.real(a.fft(True) * np.conj(b.fft(True))), doubled: the zero frequency
\* is moved to index floor(N/2) of each axis.
shifted_cross_power(a, b) ==
    LET Nx == Len(a[1])
        Ny == Len(a)
        us == fftshift([i \in 1..Nx |-> i - 1])
        vs == fftshift([i \in 1..Ny |-> i - 1])
    IN  [r \in 1..Ny |-> [c \in 1..Nx |-> cross_power(a, b, us[c], vs[r])]]

\* The number of units 1 / (2 Nx dx Ny dy) in 1 / (unit of the image).
FourierUnits(self) ==
    2 * signal_shape(self)[1] * self.scale[1]
      * signal_shape(self)[2] * self.scale[2]

\* The image of the given data on the axes of self.fft(True): scale
\* 1 / (N d) and offset -(N - 1) / (2 N d) on each signal axis.
fft_image(self, data) ==
    LET Nx == signal_shape(self)[1]
        Ny == signal_shape(self)[2]
        dx == self.scale[1]
        dy == self.scale[2]
    IN  numpy2ModI(data, <<2 * Ny * dy, 2 * Nx * dx>>,
                   <<-(Nx - 1) * Ny * dy, -(Ny - 1) * Nx * dx>>)

\* One sample of xc / np.sqrt(ac1 + ac2), the sum in place of the product.
correlate_of_sum(xc, ac1, ac2) ==
    [nan |-> ac1[1] + ac2[1] = 0 /\ xc[1] = 0,
     num |-> xc[1], radicand |-> xc[2] * (ac1[1] + ac2[1])]

\* One sample of xc / np.sqrt(ac1 * ac2) (line 1122), the three being
\* fractions over the same count: the value is num / sqrt(radicand), NaN
\* when that is 0 / 0.
correlate(xc, ac1, ac2) ==
    [nan |-> ac1[1] * ac2[1] = 0 /\ xc[1] = 0,
     num |-> xc[1], radicand |-> ac1[1] * ac2[1]]

\* A bin size given in 1 / (unit of the image), in the units of the
\* transformed axes of self.
in_fourier_units(bin_size, self) ==
    IF bin_size.type = "float"
    THEN BinFloat(bin_size.num * FourierUnits(self), bin_size.den)
    ELSE bin_size

NoCurve(exc) == [exc |-> exc, fsc |-> <<>>, axis |-> <<>>]

\* ModifiedImage(data, axes=axdict).integrate_radial(bin_size=bin_size,
\* shifted=False) for data = np.real(a.fft(True) * np.conj(b.fft(True))) on
\* the transformed axes of self (lines 1111-1120).  The data are bound to a
\* variable so that they are one value.
integrate_cross_power(self, a, b, bin_size) ==
    CHOOSE integral \in
        {integrate_radial(fft_image(self, data), Real(data),
                          in_fourier_units(bin_size, self), FALSE, NoShifts,
                          TRUE) : data \in {shifted_cross_power(a, b)}} : TRUE

\* fsc = xc / np.sqrt(ac1 * ac2) of three integrals.
correlation_curve(xc, ac1, ac2) ==
    IF xc.exc # "none" THEN NoCurve(xc.exc)
    ELSE IF ac1.exc # "none" THEN NoCurve(ac1.exc)
    ELSE IF ac2.exc # "none" THEN NoCurve(ac2.exc)
    ELSE IF Len(ac1.out.data.real) # Len(xc.out.data.real)
    THEN NoCurve("ValueError")
    ELSE [exc |-> "none",
          fsc |-> [i \in 1..Len(xc.out.data.real) |->
                      correlate(xc.out.data.real[i], ac1.out.data.real[i],
                                ac2.out.data.real[i])],
          axis |-> xc.out.axis]

\* validation.run_fourier_ring_correlation.
run_fourier_ring_correlation(self, bin_size) ==
    CHOOSE fsc \in
        {correlation_curve(xc, ac1, ac2) :
            xc \in {integrate_cross_power(self.obs, self.obs.data,
                                          self.exp.data, bin_size)},
            ac1 \in {integrate_cross_power(self.exp, self.exp.data,
                                           self.exp.data, bin_size)},
            ac2 \in {integrate_cross_power(self.obs, self.obs.data,
                                           self.obs.data, bin_size)}} : TRUE

\* One sample of (obs - exp)**2. / exp**2. as a fraction; with a zero
\* denominator it is NaN (0 / 0) or infinite.
chi2_sample_of_expected(o, e) == <<(o - e) * (o - e), e>>

chi2_sample(o, e) == <<(o - e) * (o - e), e * e>>

\* validation.run_chi2: the map is a new image kept as self.chi2.
run_chi2(self, silent_run) ==
    LET o == self.obs.data
        e == self.exp.data
    IN  IF signal_shape(self.obs) # signal_shape(self.exp)
        THEN [exc |-> "ValueError", self |-> self, returned |-> FALSE,
              out |-> <<>>]
        ELSE
        LET chi2 == [r \in 1..Len(o) |-> [c \in 1..Len(o[1]) |->
                        chi2_sample(o[r][c], e[r][c])]]
        IN  [exc |-> "none",
             self |-> [has |-> TRUE, obs |-> self.obs, exp |-> self.exp,
                       chi2 |-> chi2],
             returned |-> ~silent_run, out |-> chi2]

\* np.sqrt of an array of squares.
np_sqrt(a) == [i \in 1..Len(a) |-> Sqrt(a[i]).v]

\* The sum as it would be without the subtraction of edata.
abs_sum(odata, edata) == Sum(odata)

\* np.sqrt((odata - edata)**2.).sum().
abs_difference_sum(odata, edata) ==
    Sum([i \in 1..Len(odata) |->
            IF odata[i] >= edata[i] THEN odata[i] - edata[i]
            ELSE edata[i] - odata[i]])

\* validation.run_rvalue, on data of non-negative squares: the value is the
\* fraction num / den, NaN when that is 0 / 0.
run_rvalue(self, silent_run) ==
    IF signal_shape(self.obs) # signal_shape(self.exp)
    THEN [exc |-> "ValueError", self |-> self, returned |-> FALSE,
          out |-> <<0, 1>>]
    ELSE
    LET odata == np_sqrt(ravel(self.obs.data))
        edata == np_sqrt(ravel(self.exp.data))
        rvalue == <<abs_difference_sum(odata, edata), Sum(edata)>>
    IN  [exc |-> "none",
         self |-> [has |-> TRUE, obs |-> self.obs, exp |-> self.exp,
                   rvalue |-> rvalue],
         returned |-> ~silent_run, out |-> rvalue]

(***************************************************************************)
(* The validation session: an observed image img and an expected image    *)
(* orig of the same shape are handed to a validation, and one test is run  *)
(* on it; ret is what the test returned, with the validation it ran on.   *)
(***************************************************************************)
FourierSizes == {1, 2, 3}

Patterns == {"zeros", "constant", "squares", "delta"}

\* Arrays of non-negative squares.
Pattern(name, Nx, Ny) ==
    [r \in 1..Ny |-> [c \in 1..Nx |->
        CASE name = "zeros" -> 0
          [] name = "constant" -> 4
          [] name = "squares" -> ((r + c) % 3) * ((r + c) % 3)
          [] OTHER -> IF r = 1 /\ c = 1 THEN 1 ELSE 0]]

StatGeometries ==
    {[offset |-> <<0, 0>>, scale |-> <<1, 1>>],
     [offset |-> <<0, 0>>, scale |-> <<3, 4>>]}

StatImages ==
    {numpy2ModI(Pattern(name, Nx, Ny), g.scale, g.offset) :
        name \in Patterns, Nx \in FourierSizes, Ny \in FourierSizes,
        g \in StatGeometries}

FRCBinSizes ==
    {BinNone} \cup {BinInt(n) : n \in 1..MaxBins} \cup {BinFloat(1, 2)}

InitStat ==
    /\ orig \in StatImages
    /\ img \in {orig, [orig EXCEPT !.data = Pattern("delta",
                                                    signal_shape(orig)[1],
                                                    signal_shape(orig)[2])]}
    /\ prev = img
    /\ hist = <<>>
    /\ ret = NoRet
    /\ val = NoVal

\* validation(img, expected) of two images, unpad left at its default.
Validate ==
    /\ ret = NoRet
    /\ \E expected \in {img, orig} :
        LET r == validation(img, expected, TRUE)
        IN  /\ val' = r.out
            /\ ret' = [op |-> "validation", exc |-> r.exc, unpad |-> TRUE,
                       observed |-> img, expected |-> expected]
            /\ UNCHANGED <<img, orig, prev, hist>>

Tested(op, arg, r) ==
    /\ ret' = [op |-> op, self |-> val, arg |-> arg, exc |-> r.exc,
               returned |-> r.returned, out |-> r.out]
    /\ val' = r.self
    /\ UNCHANGED <<img, orig, prev, hist>>

RunChi2 ==
    /\ val.has
    /\ ret.op = "validation"
    /\ \E silent_run \in BOOLEAN :
        Tested("run_chi2", silent_run, run_chi2(val, silent_run))

RunRvalue ==
    /\ val.has
    /\ ret.op = "validation"
    /\ \E silent_run \in BOOLEAN :
        Tested("run_rvalue", silent_run, run_rvalue(val, silent_run))

\* The radii of the transformed image are whole units.
RepresentableRings(self, bin_size) ==
    LET ft == fft_image(self, self.data)
        rs == get_real_space(ft, FALSE, NoShifts)
    IN  /\ Representable(radius_mesh(rs.coords[1], rs.coords[2]))
        /\ bin_size.type = "None" => scales_norm(ft).exact

RunFourierRingCorrelation ==
    /\ val.has
    /\ ret.op = "validation"
    /\ \E bin_size \in FRCBinSizes :
        /\ RepresentableRings(val.obs, bin_size)
        /\ RepresentableRings(val.exp, bin_size)
        /\ \E r \in {run_fourier_ring_correlation(val, bin_size)} :
            Tested("run_fourier_ring_correlation", bin_size,
                   [exc |-> r.exc, self |-> val, returned |-> TRUE,
                    out |-> [fsc |-> r.fsc, axis |-> r.axis]])

NextStat ==
    \/ Validate
    \/ RunChi2
    \/ RunRvalue
    \/ RunFourierRingCorrelation

SpecStat == InitStat /\ [][NextStat]_vars

(***************************************************************************)
(* Claims about the validation tests.                                      *)
(***************************************************************************)
\* The validation the last test ran on held the same image twice.
SameImage == ret.self.obs = ret.self.exp

FRCReturned ==
    ret.op = "run_fourier_ring_correlation" /\ ret.exc = "none"

IsOne(v) == ~v.nan /\ v.num > 0 /\ v.num * v.num = v.radicand

\* The doubled Fourier power of the image x on the ring of label L.
RingPower(x, L) ==
    LET ft == fft_image(x, shifted_cross_power(x.data, x.data))
        mask == get_digitized_radius(ft, in_fourier_units(ret.arg, x), FALSE,
                                     NoShifts).data
    IN  Sum([p \in 1..Len(ravel(mask)) |->
                IF ravel(mask)[p] = L THEN ravel(ft.data)[p] ELSE 0])

\* C16 as stated: the Fourier ring correlation of an image with itself is
\* 1 at every bin of the curve.
C16_SelfCorrelationIsOne ==
    (FRCReturned /\ SameImage) =>
        \A i \in 1..Len(ret.out.fsc) : IsOne(ret.out.fsc[i])

\* C16: the Fourier ring correlation of an image with itself is 1 at every
\* bin whose ring carries Fourier power and NaN at every bin whose ring
\* carries none.
C16_SelfCorrelationIsOneOrNaN ==
    (FRCReturned /\ SameImage) =>
        \A i \in 1..Len(ret.out.fsc) :
            IF RingPower(ret.self.obs, ret.out.axis[i]) # 0
            THEN IsOne(ret.out.fsc[i])
            ELSE ret.out.fsc[i].nan

\* An image with itself gave a curve of several bins, one of them 1 and
\* one of them NaN.
C16_Witness ==
    /\ FRCReturned
    /\ SameImage
    /\ Len(ret.out.fsc) > 1
    /\ \E i \in 1..Len(ret.out.fsc) : IsOne(ret.out.fsc[i])
    /\ \E i \in 1..Len(ret.out.fsc) : ret.out.fsc[i].nan

ChiReturned == ret.op = "run_chi2" /\ ret.exc = "none" /\ ret.returned

\* C17: run_chi2 returns the map (observed - expected)^2 / expected^2 pixel
\* by pixel, which for observed = expected = x is 0 wherever x is nonzero,
\* and the validation holds the same observed and expected images after
\* the call.
C17_Chi2IsElementwise ==
    ChiReturned =>
        LET o == ret.self.obs.data
            e == ret.self.exp.data
        IN  /\ Len(ret.out) = Len(o)
            /\ \A r \in 1..Len(o) :
                /\ Len(ret.out[r]) = Len(o[r])
                /\ \A c \in 1..Len(o[r]) :
                    /\ ret.out[r][c][1] = (o[r][c] - e[r][c]) * (o[r][c] - e[r][c])
                    /\ ret.out[r][c][2] = e[r][c] * e[r][c]
                    /\ (SameImage /\ o[r][c] # 0)
                          => (ret.out[r][c][1] = 0 /\ ret.out[r][c][2] # 0)
            /\ val.obs = ret.self.obs
            /\ val.exp = ret.self.exp

\* A map of several pixels was returned for two different images, one of
\* its samples neither 0 nor 1.
C17_Witness ==
    /\ ChiReturned
    /\ ~SameImage
    /\ Len(ret.out) > 1
    /\ \E r \in 1..Len(ret.out), c \in 1..Len(ret.out[1]) :
        /\ ret.out[r][c][1] # 0
        /\ ret.out[r][c][2] # 0
        /\ ret.out[r][c][1] # ret.out[r][c][2]

RvalueReturned == ret.op = "run_rvalue" /\ ret.exc = "none" /\ ret.returned

IsZero(q) == q[1] = 0 /\ q[2] # 0

IsNaN(q) == q[1] = 0 /\ q[2] = 0

NonNegative(x) == \A v \in Values(x.data) : v >= 0

\* C18 as stated: the r-value of a non-negative image against itself is 0.
C18_SelfRvalueIsZero ==
    (RvalueReturned /\ SameImage /\ NonNegative(ret.self.obs)) =>
        IsZero(ret.out)

\* C18: the r-value of a non-negative image against itself is 0 when the
\* image is not zero everywhere, and NaN (0 / 0) when it is.
C18_SelfRvalueIsZeroOrNaN ==
    (RvalueReturned /\ SameImage /\ NonNegative(ret.self.obs)) =>
        IF Values(ret.self.obs.data) = {0} THEN IsNaN(ret.out)
        ELSE IsZero(ret.out)

\* The r-value of an image with zero and nonzero pixels against itself was
\* returned.
C18_Witness ==
    /\ RvalueReturned
    /\ SameImage
    /\ {0, 1} \subseteq Values(ret.self.obs.data)
    /\ IsZero(ret.out)

(***************************************************************************)
(* The repeated padding session: as the padding session, with one more    *)
(* set_pad allowed.                                                        *)
(***************************************************************************)
NextRepad ==
    \/ SetPad(MaxSetPads + 1, {"constant"})
    \/ RemovePad

SpecRepad == Init /\ [][NextRepad]_vars

(***************************************************************************)
(* Claims about repeated padding.                                          *)
(***************************************************************************)
\* Call i of hist was a set_pad that padded.
Padded(i) ==
    /\ hist[i].op = "set_pad"
    /\ hist[i].exc = "none"
    /\ hist[i].arg.form # "None"

\* The session was set_pad(w1), set_pad(w2), remove_pad.
PaddedTwiceThenRemoved ==
    /\ Len(hist) = 3
    /\ Padded(1)
    /\ Padded(2)
    /\ hist[3].op = "remove_pad"
    /\ hist[3].exc = "none"

\* The image after the first set_pad of the session.
FirstPadded == set_pad(orig, hist[1].arg, hist[1].mode).out

\* C19 as stated: after set_pad(w1), set_pad(w2) the image carries the pad
\* record of w2 alone, and remove_pad then returns the array of the first
\* set_pad with no pad record, on which remove_pad removes nothing more.
C19_OnlyLastPadIsReversed ==
    PaddedTwiceThenRemoved =>
        /\ prev.pad_width = set_pad(orig, hist[2].arg, hist[2].mode).out.pad_width
        /\ img.data = FirstPadded.data
        /\ ~img.pad_width.has
        /\ remove_pad(img).out = img

\* The parts of C19 about the record: it is that of w2, it is gone after
\* remove_pad, and a further remove_pad returns the image as it is.
C19_OnlyLastRecordIsKept ==
    PaddedTwiceThenRemoved =>
        /\ prev.pad_width = set_pad(orig, hist[2].arg, hist[2].mode).out.pad_width
        /\ ~img.pad_width.has
        /\ remove_pad(img).out = img

(***************************************************************************)
(* The float padding session: an image is padded once by a flat pad_width *)
(* of ints and floats, and unpadded.                                       *)
(***************************************************************************)
\* Floats 0.0, 0.5, 1.0, ... in the unit of the axes.
FloatWidths == {PadFloat(k, 2) : k \in 0..(4 * MaxPad + 1)}

MixedEntries == {PadInt(a) : a \in Widths} \cup FloatWidths

MixedPadWidths ==
    {PadArg("mixed", <<a>>) : a \in MixedEntries}
    \cup {PadArg("mixed", <<a, b>>) : a, b \in MixedEntries}
    \cup {PadArg("mixed", <<a, a, a>>) : a \in FloatWidths}

SetPadFloat ==
    /\ Len(hist) < MaxOps
    /\ NumPads < MaxSetPads
    /\ ~val.has
    /\ \E pad_width \in MixedPadWidths :
        Rebind("set_pad", pad_width, "constant",
               set_pad(img, pad_width, "constant"))

NextFloatPad ==
    \/ SetPadFloat
    \/ RemovePad

SpecFloatPad == Init /\ [][NextFloatPad]_vars

(***************************************************************************)
(* Claims about float pad widths.                                          *)
(***************************************************************************)
\* The last call was a set_pad with a flat pad_width of ints and floats
\* that returned.
FloatPadded ==
    /\ hist # <<>>
    /\ hist[Len(hist)].op = "set_pad"
    /\ hist[Len(hist)].arg.form = "mixed"
    /\ hist[Len(hist)].exc = "none"

LastWidths == hist[Len(hist)].arg.v

\* round(num / den) of a non-negative fraction.
Round(num, den) ==
    LET q == num \div den
        twice == 2 * (num - q * den)
    IN  IF twice > den \/ (twice = den /\ q % 2 = 1) THEN q + 1 ELSE q

\* int(num / den) of a non-negative fraction.
Truncated(num, den) == num \div den

\* The pixels of entry io of the last pad_width under the given conversion
\* of a float v on an axis of scale s.
PixelsOfEntry(io, Convert(_, _)) ==
    LET pw == LastWidths[io]
    IN  IF pw.type = "float" THEN Convert(pw.num, pw.den * prev.scale[io])
        ELSE pw.num

\* The record holds Convert(v / s) pixels for every entry, and every signal
\* axis has grown by twice the pixels of its entry (of the only entry, when
\* there is one).
StoredAndApplied(Convert(_, _)) ==
    /\ img.pad_width.has
    /\ Len(img.pad_width.arr) = Len(LastWidths)
    /\ \A io \in 1..Len(LastWidths) :
        img.pad_width.arr[io] = <<PixelsOfEntry(io, Convert)>>
    /\ \A io \in 1..signal_dimension :
        signal_shape(img)[io] = signal_shape(prev)[io]
            + 2 * PixelsOfEntry(IF Len(LastWidths) = 1 THEN 1 ELSE io, Convert)

\* C20 as stated: a float pad width v on an axis of scale s is applied and
\* stored as round(v / s) pixels, and the record holds integers only.
C20_FloatWidthIsRounded == FloatPadded => StoredAndApplied(Round)

\* C20: a float pad width v on an axis of scale s is applied and stored as
\* int(v / s) pixels, the quotient truncated toward zero, and the record
\* holds integers only.
C20_FloatWidthIsTruncated == FloatPadded => StoredAndApplied(Truncated)

\* A float width was resolved to at least one pixel on an axis where
\* rounding would have given one more.
C20_Witness ==
    /\ FloatPadded
    /\ \E io \in 1..Len(LastWidths) :
        /\ LastWidths[io].type = "float"
        /\ PixelsOfEntry(io, Truncated) >= 1
        /\ PixelsOfEntry(io, Round) = PixelsOfEntry(io, Truncated) + 1
        /\ img.pad_width.arr[io] = <<PixelsOfEntry(io, Truncated)>>

(***************************************************************************)
(* Claims about the bin width of an integer count.                         *)
(***************************************************************************)
\* A digitization was called with an integer count on a mesh.
CountedBins ==
    /\ ret.op \in DigitOps
    /\ ret.arg.type = "int"
    /\ ret.mesh # <<>>

\* The bin width of the last digitization is num / (count * den), in the
\* unit of the mesh.
WidthIs(num, den) ==
    ret.bin_size[1] * ret.arg.num * den = num * ret.bin_size[2]

\* C21 as stated: with an integer count n the bin width is
\* (max(mesh) - min(mesh)) / n, for the radius and for the angle.
C21_WidthIsSpanOverCount ==
    CountedBins => WidthIs(MatMax(ret.mesh) - MatMin(ret.mesh), 1)

\* C21: with an integer count n the bin width is max(radius) / n for the
\* radius and 2 pi / n for the angle.
C21_WidthIsMaxOrTurnOverCount ==
    CountedBins =>
        IF ret.op = "get_digitized_radius" THEN WidthIs(MatMax(ret.mesh), 1)
        ELSE WidthIs(2 * PiNum * AngleDen, PiDen)

\* A radius mesh that does not start at 0 was digitized with a count of
\* several bins.
C21_Witness ==
    /\ CountedBins
    /\ ret.exc = "none"
    /\ ret.op = "get_digitized_radius"
    /\ ret.arg.num > 1
    /\ MatMin(ret.mesh) > 0
    /\ MatMax(ret.mesh) > MatMin(ret.mesh)
    /\ WidthIs(MatMax(ret.mesh), 1)

(***************************************************************************)
(* The focal-series session: an image with one navigation axis is          *)
(* constructed and its CTF is asked for once.                              *)
(***************************************************************************)
FocalAxes == {<<0, 2>>, <<2, 5>>, <<0, 2, 5>>}

FocalImages == {FocalSeries(i, <<z>>) : i \in CTFImages, z \in FocalAxes}

InitFocal ==
    /\ orig \in FocalImages
    /\ img = orig
    /\ prev = orig
    /\ hist = <<>>
    /\ ret = NoRet
    /\ val = NoVal

NextFocal == GetContrastTransfer

SpecFocal == InitFocal /\ [][NextFocal]_vars

\* The call with explicit defocus values on an image with a single
\* navigation axis.
ExplicitDefociOnSeries ==
    /\ CTFCalled
    /\ ret.defoci.form = "list"
    /\ Len(navigation_axes(prev)) = 1

\* The call with defoci=None on an image with a single navigation axis.
NoDefociOnSeries ==
    /\ CTFCalled
    /\ ret.defoci.form = "None"
    /\ Len(navigation_axes(prev)) = 1

\* The result is in astigmatism mode.
Astigmatic == CTFReturned /\ "angles" \in DOMAIN ret.out

\* C23 as stated: with explicit defoci and angles=None on an image with a
\* single navigation axis, the axis is never taken as astigmatism angles:
\* the result is the non-astigmatic CTF with one slice per defocus value.
C23_SeriesAxisIsNeverAngles ==
    ExplicitDefociOnSeries =>
        /\ ~Astigmatic
        /\ ret.exc = "none" =>
              ret.out.shape = squeeze(<<Len(ret.defoci.v)>>
                                      \o <<signal_shape(prev)[2],
                                           signal_shape(prev)[1]>>)

\* C23: the angles are read from the first navigation axis that was not
\* read for the defocus values.  With explicit defoci and angles=None on an
\* image with a single navigation axis, that axis gives the angles and a
\* result is the astigmatic CTF with one slice per defocus value and angle;
\* with defoci=None the axis gives the defocus values and the result is
\* the non-astigmatic CTF with one slice per value.
C23_FirstUnreadAxisIsAngles ==
    /\ (ExplicitDefociOnSeries /\ ret.exc = "none") =>
          /\ Astigmatic
          /\ ret.out.angles = navigation_axes(prev)[1]
          /\ ret.out.astigmatic_defocus = ret.defoci.v
          /\ ret.out.shape = squeeze(<<Len(ret.defoci.v),
                                       Len(navigation_axes(prev)[1]),
                                       signal_shape(prev)[2],
                                       signal_shape(prev)[1]>>)
    /\ (NoDefociOnSeries /\ ret.exc = "none") =>
          /\ ~Astigmatic
          /\ ret.out.shape = squeeze(<<Len(navigation_axes(prev)[1]),
                                       signal_shape(prev)[2],
                                       signal_shape(prev)[1]>>)

\* Two explicit defocus values on a 3x2 focal series of three planes: the
\* result has a slice for each of the 2 x 3 pairs, and a sample carrying a
\* phase of the angle 2 taken from the axis.
C23_Witness ==
    /\ ExplicitDefociOnSeries
    /\ Astigmatic
    /\ ret.defoci.v = <<2, 5>>
    /\ navigation_axes(prev)[1] = <<0, 2, 5>>
    /\ ret.out.shape = <<2, 3, 2, 3>>
    /\ \E r \in 1..2, c \in 1..3 :
          LET smp == ret.out.slices[1][2][r][c]
          IN  /\ ~smp.nan
              /\ smp.phase # NoPhase
              /\ smp.phase[3] = 2

=============================================================================
